---- MODULE Spec2Model ----
(***************************************************************************)
(* Model of ein-agent's worker:                                            *)
(*  - the human-in-the-loop investigation session, HumanInTheLoopWorkflow  *)
(*    (workflows/human_in_the_loop.py) with its state model                *)
(*    (models/hitl.py): Spec, and SpecRedelivering for a transport that    *)
(*    delivers a send_message signal twice;                                *)
(*  - the blackboard, SharedContext (models/investigation.py), and the     *)
(*    tools that read and write it                                         *)
(*    (workflows/agents/shared_context_tools.py): SpecBlackboard;          *)
(*  - the keyword router (workflows/agents/router_agent.py): SpecRouter.   *)
(*                                                                         *)
(* The workflow is a set of coroutines on one deterministic event loop:    *)
(* run(), the signal handlers, and the function tools an agent turn calls. *)
(* A coroutine runs without interruption from one await to the next, so    *)
(* every action below is the code between two awaits.  Signal handlers     *)
(* have no await and are one action each.  The function tools requested    *)
(* by one model response are started together by the agent runner, so more *)
(* than one tool call can be outstanding in a turn (at most MaxTools).     *)
(* When the event loop resumes a coroutine whose wait_condition has come   *)
(* true it resumes every such coroutine before the next signal is taken    *)
(* (draining).                                                             *)
(***************************************************************************)
EXTENDS Integers, Sequences, FiniteSets, Bags, TLC

\* ---------------------------------------------------------------------
\* Bounds
\* ---------------------------------------------------------------------
MaxTurns == 2        \* largest config.max_turns a session is started with
MaxMsgs == 2         \* send_message signals delivered to one session
MaxSelections == 1   \* provide_agent_selection signals delivered
MaxTools == 2        \* tool calls that can be outstanding in one turn
MaxRedeliveries == 1  \* send_message signals the transport delivers twice
MaxFindings == 3     \* update_shared_context calls that record a finding
MaxGroups == 1       \* add_group calls
MaxLen == 4          \* characters in a text given to the router
MaxText == 5         \* characters in a text given to a router called twice
MaxCalls == 2        \* calls of the router's tool on one text
MaxAlerts == 2       \* findings of one investigation round
MaxRounds == 2       \* max_rounds of a multi-round configuration
MaxTimed == 3        \* findings whose start times are compared

\* ---------------------------------------------------------------------
\* Values
\* ---------------------------------------------------------------------
None == "None"      \* None where the other values are strings

\* The pending_* fields of WorkflowState hold None or a value of any type:
\* Null is None there, and Some(v) the value v.
Null == {}
Some(v) == {v}

Contents == {"prod"}                 \* texts a user message can carry
Questions == {"which cluster?"}      \* questions ask_user is called with

AVAILABLE_SPECIALISTS ==
    <<"ComputeSpecialist", "StorageSpecialist", "NetworkSpecialist">>

SpecialistNames == {AVAILABLE_SPECIALISTS[k] : k \in 1..Len(AVAILABLE_SPECIALISTS)}

\* values run() is started with as config
Configs == [max_turns : 1..MaxTurns]

\* values run() is started with as initial_message
InitialMessages == {None, "prod"}

\* payloads of provide_confirmation
Confirmations == {TRUE}

\* payloads of provide_agent_selection: a known name, "" or an unknown name
Selections == {"", "StorageSpecialist", "Nobody"}

\* suggestions select_specialist is called with
Suggestions == {"StorageSpecialist"}

\* The phrases _is_final_report looks for in the lower-cased response.
Indicators ==
    {"root cause analysis", "root cause:", "recommended actions:",
     "remediation steps:", "investigation complete", "summary of findings"}

\* final outputs an agent turn can produce (None: no final output)
FinalOutputs ==
    {None, "", "Root Cause: osd.5 is down", "checking the pods"}

FallbackResponse == "I encountered an issue processing your request."
ErrorMessage == "I encountered an error: ... Please try again or rephrase your request."
Greeting == "Hello! ... How can I help you today?"

\* str.lower() on the texts of the model
Lower(text) ==
    IF text = "Root Cause: osd.5 is down" THEN "root cause: osd.5 is down"
    ELSE IF text = FallbackResponse
         THEN "i encountered an issue processing your request."
         ELSE text

\* indicator in text, for lower-cased texts of the model
Occurs(indicator, text) ==
    <<indicator, text>> \in {<<"root cause:", "root cause: osd.5 is down">>}

\* what the tools return to the calling agent
UserEndedNotice == "User ended the conversation."
CancelNotice ==
    "Selection cancelled by user. Please ask the user what they would like to do."
UnknownSpecialistError == "Error: Unknown specialist"
SpecialistFindings == "Findings"
SpecialistError == "Error: Specialist encountered an error"

VARIABLES
    _state,                  \* WorkflowState
    _config,                 \* HITLConfig (max_turns)
    _pending_user_response,
    _has_pending_input,
    _should_end,
    _pending_confirmation,
    _confirmation_response,
    _pending_agent_selection,
    _selected_agent,
    turn_count,              \* local of run()
    pc,                      \* where run() is
    result,                  \* what run() returned
    initial_message,         \* argument of run()
    tool,                    \* the outstanding tool calls of the running turn
    returned,                \* history: the tool call that returned last
    draining,                \* the event loop has released waits to resume
    delivered,               \* history: send_message signals delivered
    responseSeq,             \* history: which delivery _pending_user_response holds
    selDelivered,            \* history: provide_agent_selection signals delivered
    lastSelection,           \* history: the selection signalled since the
                             \* latest select_specialist call, if any
    redelivered,             \* history: send_message signals delivered again
    findings,                \* _shared_context.findings
    groups,                  \* _shared_context.groups
    summary,                 \* what an earlier format_summary() call returned
    reply,                   \* what the latest call on the blackboard returned
    recorded,                \* history: the findings update_shared_context
                             \* has reported as recorded
    context,                 \* the text the router's tool is called with
    available_specialists,   \* argument of new_router_agent
    suggestions,             \* what the router's tool suggests
    outputs,                 \* what the calls of the router's tool returned
    keyword_order,           \* per worker process, the order in which its
                             \* keyword sets iterate
    current_findings,        \* the AlertFindings of the current round
    previous_findings,       \* the AlertFindings of the previous round
    round_number,            \* the number of the current round
    round_config,            \* the MultiRoundConfig of the run
    utility_result,          \* what the latest call of an investigation
                             \* utility returned
    correlation,             \* where the run of the correlation workflow is
    handoff_turn,            \* the turn in which investigate_alert was last
                             \* invoked (0: never)
    last_fetched_alerts,     \* _state.last_fetched_alerts
    alertmanager_url,        \* _config.alertmanager_url
    answered,                \* history: the delivery whose message ask_user
                             \* last returned as an answer (0: none)
    incident_alerts,         \* the alerts IncidentCorrelationWorkflow.run is
                             \* given
    created_agents,          \* what _create_agents came to
    enabled_servers,         \* mcp_config.enabled_servers
    swarm                    \* what the builder of the agent swarm came to

vars == <<_state, _config, _pending_user_response, _has_pending_input,
          _should_end, _pending_confirmation, _confirmation_response,
          _pending_agent_selection, _selected_agent, turn_count, pc, result,
          initial_message, tool, returned, draining, delivered, responseSeq,
          selDelivered, lastSelection, redelivered,
          findings, groups, summary, reply, recorded,
          context, available_specialists, suggestions,
          outputs, keyword_order,
          current_findings, previous_findings, round_number, round_config,
          utility_result, correlation,
          handoff_turn, last_fetched_alerts, alertmanager_url, answered,
          incident_alerts, created_agents, enabled_servers, swarm>>

flags == <<_pending_user_response, _has_pending_input, _should_end,
           _pending_confirmation, _confirmation_response,
           _pending_agent_selection, _selected_agent>>

history == <<delivered, responseSeq, selDelivered, lastSelection>>

\* the variables no step of the session itself changes
blackboard == <<findings, groups, summary, reply, recorded>>

router == <<context, available_specialists, suggestions,
            outputs, keyword_order>>

investigation == <<current_findings, previous_findings, round_number,
                   round_config, utility_result, correlation>>

alerting == <<handoff_turn, last_fetched_alerts, alertmanager_url>>

building == <<incident_alerts, created_agents, enabled_servers, swarm>>

others == <<redelivered, blackboard, router, investigation, alerting, answered,
            building>>

\* ---------------------------------------------------------------------
\* models/hitl.py
\* ---------------------------------------------------------------------
WorkflowState ==
    [status |-> "PENDING",
     messages |-> <<>>,
     pending_question |-> Null,
     pending_tool_call |-> Null,
     pending_handoff |-> Null,
     pending_agent_selection |-> Null]

HITLConfig == [max_turns |-> 50]

ChatMessage(role, content) == [role |-> role, content |-> content]

AgentSelectionRequest(suggested) ==
    [from_agent |-> "InvestigationAgent",
     suggested_agent |-> suggested,
     available_agents |-> AVAILABLE_SPECIALISTS]

\* An outstanding tool call.  callMsg, callSel: the signals delivered
\* when the call was made; selected, auth: the specialist the call is
\* running and the selection signal the run was started on.
WaitingTool(call) ==
    [pc |-> IF call.kind = "ask_user" THEN "ask_wait" ELSE "sel_wait",
     callMsg |-> delivered,
     callSel |-> selDelivered,
     selected |-> None,
     auth |-> 0]

\* the record of a tool call of the given kind that has returned ret
ReturnedTool(kind, ret) == [kind |-> kind, ret |-> ret]

NoReturn == ReturnedTool(None, None)

\* ---------------------------------------------------------------------
\* __init__
\* ---------------------------------------------------------------------
SessionFields ==
    /\ _state = WorkflowState
    /\ _config = HITLConfig
    /\ _pending_user_response = None
    /\ _has_pending_input = FALSE
    /\ _should_end = FALSE
    /\ _pending_confirmation = FALSE
    /\ _confirmation_response = Null
    /\ _pending_agent_selection = FALSE
    /\ _selected_agent = None
    /\ turn_count = 0
    /\ pc = "start"
    /\ result = None
    /\ initial_message = None
    /\ tool = EmptyBag
    /\ returned = NoReturn
    /\ draining = FALSE
    /\ delivered = 0
    /\ responseSeq = 0
    /\ selDelivered = 0
    /\ lastSelection = None
    /\ redelivered = 0
    /\ handoff_turn = 0
    /\ answered = 0
    /\ last_fetched_alerts = <<>>

\* a session whose configuration names no Alertmanager
InitSession == SessionFields /\ alertmanager_url = None

\* SharedContext(): no findings, no groups; nothing called yet
NoReply == [op |-> None]

InitBlackboard ==
    /\ findings = <<>>
    /\ groups = <<>>
    /\ summary = <<>>
    /\ reply = NoReply
    /\ recorded = <<>>

\* no router has been created
Processes == {"worker-1", "worker-2"}

\* no set of keywords has been iterated in any process
NoOrder == [process \in Processes |-> Null]

NoRouter ==
    /\ context = <<>>
    /\ available_specialists = {}
    /\ suggestions = Null
    /\ outputs = <<>>
    /\ keyword_order = NoOrder

\* MultiRoundConfig: the settings of a correlation run
MultiRoundConfig(enable_multi_round, max_rounds, confidence_threshold, convergence_threshold) ==
    [enable_multi_round |-> enable_multi_round,
     max_rounds |-> max_rounds,
     confidence_threshold |-> confidence_threshold,
     convergence_threshold |-> convergence_threshold]

NoOutcome == [op |-> None]

\* no incident workflow has been given alerts, and no swarm has been built
NoBuilding ==
    /\ incident_alerts = <<>>
    /\ created_agents = NoOutcome
    /\ enabled_servers = <<>>
    /\ swarm = NoOutcome

\* no investigation utility has been given anything
NoInvestigation ==
    /\ current_findings = <<>>
    /\ previous_findings = <<>>
    /\ round_number = 1
    /\ round_config = MultiRoundConfig(FALSE, 1, 80, 90)
    /\ utility_result = NoOutcome
    /\ correlation = "start"

Init == InitSession /\ InitBlackboard /\ NoRouter /\ NoInvestigation /\ NoBuilding

\* ---------------------------------------------------------------------
\* Signals.  A closed workflow (run() has returned) accepts no signal.
\* ---------------------------------------------------------------------
\* the handler of send_message
send_message_handler(message) ==
    /\ _state' = [_state EXCEPT
                    !.messages = Append(@, ChatMessage("user", message))]
    /\ _pending_user_response' = message
    /\ _has_pending_input' = TRUE

send_message ==
    /\ pc # "done"
    /\ ~draining
    /\ delivered < MaxMsgs
    /\ \E message \in Contents : send_message_handler(message)
    /\ delivered' = delivered + 1
    /\ responseSeq' = delivered + 1
    /\ UNCHANGED <<others, _config, _should_end, _pending_confirmation,
                   _confirmation_response, _pending_agent_selection,
                   _selected_agent, turn_count, pc, result, initial_message, tool,
                   returned, draining, selDelivered, lastSelection>>

\* The transport delivers the latest send_message signal a second time:
\* the handler runs again with the same argument.
send_message_again ==
    /\ pc # "done"
    /\ ~draining
    /\ delivered >= 1
    /\ redelivered < MaxRedeliveries
    /\ send_message_handler(_pending_user_response)
    /\ redelivered' = redelivered + 1
    /\ UNCHANGED <<blackboard, router, investigation, alerting, answered, building,
                   _config, _should_end, _pending_confirmation,
                   _confirmation_response, _pending_agent_selection,
                   _selected_agent, turn_count, pc, result, initial_message, tool,
                   returned, draining, history>>

end_workflow ==
    /\ pc # "done"
    /\ ~draining
    /\ _should_end' = TRUE
    /\ _has_pending_input' = TRUE
    /\ UNCHANGED <<others, _state, _config, _pending_user_response,
                   _pending_confirmation, _confirmation_response,
                   _pending_agent_selection, _selected_agent, turn_count,
                   pc, result, initial_message, tool, returned, draining, history>>

provide_confirmation ==
    /\ pc # "done"
    /\ ~draining
    /\ \E confirmed \in Confirmations : _confirmation_response' = Some(confirmed)
    /\ _pending_confirmation' = FALSE
    /\ UNCHANGED <<others, _state, _config, _pending_user_response,
                   _has_pending_input, _should_end,
                   _pending_agent_selection, _selected_agent, turn_count,
                   pc, result, initial_message, tool, returned, draining, history>>

\* selected_agent if selected_agent else None
SelectedOrNone(selected_agent) ==
    IF selected_agent # "" THEN selected_agent ELSE None

provide_agent_selection ==
    /\ pc # "done"
    /\ ~draining
    /\ selDelivered < MaxSelections
    /\ \E selected_agent \in Selections :
        /\ _selected_agent' = SelectedOrNone(selected_agent)
        /\ lastSelection' = selected_agent
    /\ _pending_agent_selection' = FALSE
    /\ selDelivered' = selDelivered + 1
    /\ UNCHANGED <<others, _state, _config, _pending_user_response,
                   _has_pending_input, _should_end, _pending_confirmation,
                   _confirmation_response, turn_count, pc, result,
                   initial_message, tool, returned, draining,
                   delivered, responseSeq>>

\* ---------------------------------------------------------------------
\* run()
\* ---------------------------------------------------------------------
\* any(indicator in response.lower() for indicator in indicators)
_is_final_report(response) ==
    \E indicator \in Indicators : Occurs(indicator, Lower(response))

\* LoopCondition with the budget test off by one
LoopCondition_OffByOne(should_end, tc, max_turns) ==
    ~should_end /\ tc <= max_turns

\* while not self._should_end and turn_count < self._config.max_turns
LoopCondition(should_end, tc, max_turns) ==
    ~should_end /\ tc < max_turns

\* RunExit with COMPLETED also after a stop
RunExit_AlwaysCompleted(st) ==
    /\ _state' = [st EXCEPT !.status = "COMPLETED"]
    /\ result' = "Investigation completed (max turns reached)."
    /\ pc' = "done"
    /\ returned' = returned

\* the code after the loop: "Workflow ended"
RunExit(st) ==
    /\ _state' = [st EXCEPT !.status =
                     IF _should_end THEN "ENDED" ELSE "COMPLETED"]
    /\ result' = IF _should_end THEN "Investigation ended by user."
                 ELSE "Investigation completed (max turns reached)."
    /\ pc' = "done"
    /\ returned' = returned

\* has_pending_input = False; turn_count += 1; await Runner.run(agent, ...)
StartTurn(st, tc) ==
    /\ _state' = st
    /\ _has_pending_input' = FALSE
    /\ turn_count' = tc + 1
    /\ pc' = "in_turn"
    /\ result' = result
    /\ returned' = NoReturn

\* One pass from the head of the while loop to its next await or to the
\* return, with st and hpi the values the step has given to _state and
\* _has_pending_input so far.
RunLoop(st, hpi) ==
    IF ~LoopCondition(_should_end, turn_count, _config.max_turns)
    THEN RunExit(st) /\ _has_pending_input' = hpi /\ turn_count' = turn_count
    ELSE IF ~hpi
         THEN /\ _state' = st
              /\ pc' = "wait_input"
              /\ _has_pending_input' = hpi
              /\ returned' = NoReturn
              /\ UNCHANGED <<turn_count, result>>
         ELSE StartTurn(st, turn_count)

\* run() up to the await of the load_mcp_config activity
RunStart ==
    /\ pc = "start"
    /\ \E config \in Configs : _config' = config
    /\ \E im \in InitialMessages : initial_message' = im
    /\ _state' = [_state EXCEPT !.status = "RUNNING"]
    /\ pc' = "load_mcp"
    /\ UNCHANGED <<others, flags, turn_count, result, tool, returned, draining,
                   history>>

\* the activity has returned: agent creation, initial message or greeting,
\* and the first pass of the loop
RunSetup ==
    /\ pc = "load_mcp"
    /\ IF initial_message \notin {None, ""}
       THEN RunLoop([_state EXCEPT !.messages =
                        Append(@, ChatMessage("user", initial_message))],
                    TRUE)
       ELSE RunLoop([_state EXCEPT !.messages =
                        Append(@, ChatMessage("assistant", Greeting))],
                    _has_pending_input)
    /\ UNCHANGED <<others, _config, _pending_user_response, _should_end,
                   _pending_confirmation, _confirmation_response,
                   _pending_agent_selection, _selected_agent,
                   initial_message, tool, draining, history>>

\* WaitInput without "if self._should_end: break"
WaitInput_NoBreak ==
    /\ pc = "wait_input"
    /\ _has_pending_input
    /\ StartTurn(_state, turn_count)
    /\ UNCHANGED <<others, _config, _pending_user_response, _should_end,
                   _pending_confirmation, _confirmation_response,
                   _pending_agent_selection, _selected_agent,
                   initial_message, tool, draining, history>>

\* wait_condition(lambda: self._has_pending_input) is released
WaitInput ==
    /\ pc = "wait_input"
    /\ _has_pending_input
    /\ IF _should_end
       THEN RunExit(_state) /\ UNCHANGED <<_has_pending_input, turn_count>>
       ELSE StartTurn(_state, turn_count)
    /\ UNCHANGED <<others, _config, _pending_user_response, _should_end,
                   _pending_confirmation, _confirmation_response,
                   _pending_agent_selection, _selected_agent,
                   initial_message, tool, draining, history>>

AllToolsReturned == tool = EmptyBag

\* TurnReturns with the return after a final report left out
TurnReturns_NoReturn ==
    /\ pc = "in_turn"
    /\ AllToolsReturned
    /\ \E final_output \in FinalOutputs :
         LET response == IF final_output \notin {None, ""} THEN final_output
                         ELSE FallbackResponse
             st == [_state EXCEPT !.messages =
                       Append(@, ChatMessage("assistant", response))]
         IN IF _is_final_report(response)
            THEN RunLoop([st EXCEPT !.status = "COMPLETED"], _has_pending_input)
            ELSE RunLoop(st, _has_pending_input)
    /\ UNCHANGED <<others, _config, _pending_user_response, _should_end,
                   _pending_confirmation, _confirmation_response,
                   _pending_agent_selection, _selected_agent,
                   initial_message, tool, draining, history>>

\* Runner.run returned: the response is appended, a final report ends the
\* session, anything else goes round the loop
TurnReturns ==
    /\ pc = "in_turn"
    /\ AllToolsReturned
    /\ \E final_output \in FinalOutputs :
         LET response == IF final_output \notin {None, ""} THEN final_output
                         ELSE FallbackResponse
             st == [_state EXCEPT !.messages =
                       Append(@, ChatMessage("assistant", response))]
         IN IF _is_final_report(response)
            THEN /\ _state' = [st EXCEPT !.status = "COMPLETED"]
                 /\ result' = response
                 /\ pc' = "done"
                 /\ UNCHANGED <<_has_pending_input, turn_count, returned>>
            ELSE RunLoop(st, _has_pending_input)
    /\ UNCHANGED <<others, _config, _pending_user_response, _should_end,
                   _pending_confirmation, _confirmation_response,
                   _pending_agent_selection, _selected_agent,
                   initial_message, tool, draining, history>>

\* TurnRaises with the exception ending the session
TurnRaises_Aborts ==
    /\ pc = "in_turn"
    /\ AllToolsReturned
    /\ RunExit([_state EXCEPT !.messages =
                   Append(@, ChatMessage("assistant", ErrorMessage))])
    /\ UNCHANGED <<others, _config, flags, turn_count, initial_message, tool,
                   draining, history>>

\* Runner.run raised: the except branch appends the error message and the
\* loop goes round
TurnRaises ==
    /\ pc = "in_turn"
    /\ AllToolsReturned
    /\ RunLoop([_state EXCEPT !.messages =
                   Append(@, ChatMessage("assistant", ErrorMessage))],
               _has_pending_input)
    /\ UNCHANGED <<others, _config, _pending_user_response, _should_end,
                   _pending_confirmation, _confirmation_response,
                   _pending_agent_selection, _selected_agent,
                   initial_message, tool, draining, history>>

\* ---------------------------------------------------------------------
\* Function tools.  A tool call runs from its first line to its first
\* await when the runner starts it; the calls of one model response are
\* started one after the other before any of them is resumed.
\* ---------------------------------------------------------------------
ToolCalls ==
    [kind : {"ask_user"}, question : Questions]
        \cup [kind : {"select_specialist"}, suggested : Suggestions]

\* the tool calls one model response can ask for
Batches == UNION {[1..n -> ToolCalls] : n \in 1..MaxTools}

\* the fields a tool call writes before its first await
CallEnv ==
    [pending_question |-> _state.pending_question,
     pending_agent_selection |-> _state.pending_agent_selection,
     has_pending_input |-> _has_pending_input,
     pending_flag |-> _pending_agent_selection,
     selected_agent |-> _selected_agent]

\* ask_user_call without the reset of _has_pending_input
ask_user_call_NoReset(env, question) ==
    [env EXCEPT !.pending_question = Some(question)]

\* ask_user up to "await workflow.wait_condition"
ask_user_call(env, question) ==
    [env EXCEPT !.pending_question = Some(question),
                !.has_pending_input = FALSE]

\* select_specialist up to "await workflow.wait_condition"
select_specialist_call(env, suggested) ==
    [env EXCEPT !.pending_agent_selection =
                    Some(AgentSelectionRequest(suggested)),
                !.pending_flag = TRUE,
                !.selected_agent = None]

CallTool(env, call) ==
    IF call.kind = "ask_user"
    THEN ask_user_call(env, call.question)
    ELSE select_specialist_call(env, call.suggested)

RECURSIVE StartCalls(_, _, _)
StartCalls(env, batch, k) ==
    IF k > Len(batch) THEN env
    ELSE StartCalls(CallTool(env, batch[k]), batch, k + 1)

\* the outstanding calls after a batch has been started
StartedTools(batch) ==
    LET started == {WaitingTool(batch[k]) : k \in 1..Len(batch)} IN
    [c \in started |->
        Cardinality({k \in 1..Len(batch) : WaitingTool(batch[k]) = c})]

\* tool with the call c taken out
Without(c) == tool (-) SetToBag({c})

\* the agent of the running turn calls tools
CallTools ==
    /\ pc = "in_turn"
    /\ AllToolsReturned
    /\ \E batch \in Batches :
         LET env == StartCalls(CallEnv, batch, 1) IN
         /\ _state' = [_state EXCEPT
                         !.pending_question = env.pending_question,
                         !.pending_agent_selection = env.pending_agent_selection]
         /\ _has_pending_input' = env.has_pending_input
         /\ _pending_agent_selection' = env.pending_flag
         /\ _selected_agent' = env.selected_agent
         /\ tool' = StartedTools(batch)
         /\ lastSelection' =
               IF \E k \in 1..Len(batch) : batch[k].kind = "select_specialist"
               THEN None ELSE lastSelection
    /\ UNCHANGED <<others, _config, _pending_user_response, _should_end,
                   _pending_confirmation, _confirmation_response,
                   turn_count, pc, result, initial_message, returned,
                   draining, delivered, responseSeq, selDelivered>>

\* AskUserReleased taking the answer to a selection request for its own
AskUserReleased_AnyAnswer ==
    _has_pending_input \/ _should_end \/ ~_pending_agent_selection

\* lambda: workflow_ref._has_pending_input or workflow_ref._should_end
AskUserReleased == _has_pending_input \/ _should_end

\* AskUserResult with the pending message read before the stop flag
AskUserResult_MessageFirst ==
    IF _pending_user_response # None THEN _pending_user_response
    ELSE IF _should_end THEN UserEndedNotice ELSE ""

\* what ask_user returns once released
AskUserResult ==
    IF _should_end THEN UserEndedNotice
    ELSE IF _pending_user_response # None THEN _pending_user_response ELSE ""

\* lambda: not workflow_ref._pending_agent_selection
SelectReleased == ~_pending_agent_selection

\* the wait_condition of the outstanding call d has come true
ToolReleased(d) ==
    \/ d.pc = "ask_wait" /\ AskUserReleased
    \/ d.pc = "sel_wait" /\ SelectReleased

\* calls other than c are still to be resumed
MoreToResume(c) == \E d \in BagToSet(Without(c)) : ToolReleased(d)

\* AskUserResume leaving pending_question set
AskUserResume_KeepsQuestion(c) ==
    /\ c.pc = "ask_wait"
    /\ AskUserReleased
    /\ tool' = Without(c)
    /\ returned' = ReturnedTool("ask_user", AskUserResult)
    /\ draining' = MoreToResume(c)
    /\ UNCHANGED <<others, _state, _config, flags, turn_count, pc, result,
                   initial_message, history>>

\* ask_user from the release of its wait to its return
AskUserResume(c) ==
    /\ c.pc = "ask_wait"
    /\ AskUserReleased
    /\ _state' = [_state EXCEPT !.pending_question = Null]
    /\ tool' = Without(c)
    /\ returned' = ReturnedTool("ask_user", AskUserResult)
    /\ draining' = MoreToResume(c)
    /\ UNCHANGED <<others, _config, flags, turn_count, pc, result, initial_message,
                   history>>

\* SelectOutcome without the test for a cancelled selection
SelectOutcome_NoCancel(selected) ==
    IF selected \notin SpecialistNames THEN "unknown" ELSE "run"

\* what select_specialist does with the selection it reads
SelectOutcome(selected) ==
    IF selected \in {None, ""} THEN "cancelled"
    ELSE IF selected \notin SpecialistNames THEN "unknown"
         ELSE "run"

\* select_specialist from the release of its wait to its return or to the
\* await of the specialist's run
SelectResume(c) ==
    /\ c.pc = "sel_wait"
    /\ SelectReleased
    /\ _state' = [_state EXCEPT !.pending_agent_selection = Null]
    /\ LET outcome == SelectOutcome(_selected_agent) IN
       IF outcome = "run"
       THEN /\ tool' = Without(c) (+)
                          SetToBag({[c EXCEPT !.pc = "spec_run",
                                              !.selected = _selected_agent,
                                              !.auth = selDelivered]})
            /\ returned' = returned
       ELSE /\ tool' = Without(c)
            /\ returned' = ReturnedTool("select_specialist",
                                IF outcome = "cancelled" THEN CancelNotice
                                ELSE UnknownSpecialistError)
    /\ draining' = MoreToResume(c)
    /\ UNCHANGED <<others, _config, flags, turn_count, pc, result, initial_message,
                   history>>

\* the specialist's Runner.run returns or raises
SpecialistReturns(c) ==
    /\ c.pc = "spec_run"
    /\ tool' = Without(c)
    /\ \E r \in {SpecialistFindings, SpecialistError} :
          returned' = ReturnedTool("select_specialist", r)
    /\ UNCHANGED <<others, _state, _config, flags, turn_count, pc, result,
                   initial_message, draining, history>>

\* ---------------------------------------------------------------------
\* The session
\* ---------------------------------------------------------------------
Signal ==
    \/ send_message
    \/ end_workflow
    \/ provide_confirmation
    \/ provide_agent_selection

Run ==
    \/ RunStart
    \/ RunSetup
    \/ WaitInput
    \/ TurnReturns
    \/ TurnRaises

Tools ==
    \/ CallTools
    \/ \E c \in BagToSet(tool) : AskUserResume(c)
    \/ \E c \in BagToSet(tool) : SelectResume(c)
    \/ \E c \in BagToSet(tool) : SpecialistReturns(c)

Next == Signal \/ Run \/ Tools

Spec == Init /\ [][Next]_vars

\* the session under at-least-once delivery of send_message
NextRedelivering == Next \/ send_message_again

SpecRedelivering == Init /\ [][NextRedelivering]_vars

\* ---------------------------------------------------------------------
\* The session with the answers of ask_user recorded: which delivery each
\* returned message came with.
\* ---------------------------------------------------------------------
\* ask_user from the release of its wait to its return, as AskUserResume,
\* noting the delivery of the message it returns
AskUserAnswers(c) ==
    /\ c.pc = "ask_wait"
    /\ AskUserReleased
    /\ _state' = [_state EXCEPT !.pending_question = Null]
    /\ tool' = Without(c)
    /\ returned' = ReturnedTool("ask_user", AskUserResult)
    /\ answered' = IF _should_end THEN answered ELSE responseSeq
    /\ draining' = MoreToResume(c)
    /\ UNCHANGED <<redelivered, blackboard, router, investigation, alerting, building,
                   _config, flags, turn_count, pc, result, initial_message,
                   history>>

NextAnswers ==
    \/ Signal
    \/ Run
    \/ CallTools
    \/ \E c \in BagToSet(tool) : AskUserAnswers(c)
    \/ \E c \in BagToSet(tool) : SelectResume(c)
    \/ \E c \in BagToSet(tool) : SpecialistReturns(c)

SpecAnswers == Init /\ [][NextAnswers]_vars

\* ---------------------------------------------------------------------
\* The agents of a session: the hand-off investigate_alert and the tool
\* fetch_alerts of the InvestigationAgent.
\* ---------------------------------------------------------------------
InvestigationAgent == "InvestigationAgent"

\* the agent of handoff(compute_spec, on_handoff=...): the runner makes the
\* agent the hand-off was built with the running agent, whatever the
\* on_handoff callback returns
InvestigateAlertTarget == "ComputeSpecialist"

\* the agent that is running the turn
active_agent ==
    IF handoff_turn # 0 /\ handoff_turn = turn_count
    THEN InvestigateAlertTarget
    ELSE InvestigationAgent

\* the InvestigationAgent invokes investigate_alert: on_handoff_to_investigator
\* builds an investigator, and the hand-off goes to its own agent
investigate_alert ==
    /\ pc = "in_turn"
    /\ AllToolsReturned
    /\ active_agent = InvestigationAgent
    /\ handoff_turn' = turn_count
    /\ UNCHANGED <<_state, _config, flags, turn_count, pc, result,
                   initial_message, tool, returned, draining, history,
                   redelivered, blackboard, router, investigation,
                   last_fetched_alerts, alertmanager_url, answered, building>>

\* the agent calls the tools of the InvestigationAgent while it is the
\* running agent
InvestigationAgentCallsTools ==
    /\ active_agent = InvestigationAgent
    /\ CallTools

AlertmanagerUrls == {None, "http://alertmanager:9093"}

\* what fetch_alerts_activity returns
FetchedAlerts == {<<>>, <<[fingerprint |-> "a1b2c3d4"]>>}

NotConfiguredError == "Error: Alertmanager URL is not configured."
FetchError == "Error: Failed to fetch alerts from Alertmanager"

\* the summary fetch_alerts returns
AlertsSummary(alerts) ==
    IF alerts = <<>> THEN "No firing alerts found."
    ELSE "Found 1 firing alerts: (Fingerprint: a1b2c3d4)"

\* the outstanding fetch_alerts call, at the await of its activity
FetchCall ==
    [pc |-> "fetch_run", callMsg |-> delivered, callSel |-> selDelivered,
     selected |-> None, auth |-> 0]

\* fetch_alerts up to its return or to the await of the activity
fetch_alerts ==
    /\ pc = "in_turn"
    /\ AllToolsReturned
    /\ active_agent = InvestigationAgent
    /\ IF alertmanager_url = None
       THEN /\ returned' = ReturnedTool("fetch_alerts", NotConfiguredError)
            /\ tool' = tool
       ELSE /\ tool' = SetToBag({FetchCall})
            /\ returned' = returned
    /\ UNCHANGED <<_state, _config, flags, turn_count, pc, result,
                   initial_message, draining, history, redelivered,
                   blackboard, router, investigation, alerting, answered, building>>

\* FetchAlertsReturns with the cache emptied when the activity fails
FetchAlertsReturns_ClearsCache(c) ==
    /\ c.pc = "fetch_run"
    /\ tool' = Without(c)
    /\ \/ /\ returned' = ReturnedTool("fetch_alerts", FetchError)
          /\ last_fetched_alerts' = <<>>
       \/ \E alerts \in FetchedAlerts :
             /\ last_fetched_alerts' = alerts
             /\ returned' = ReturnedTool("fetch_alerts", AlertsSummary(alerts))
    /\ UNCHANGED <<_state, _config, flags, turn_count, pc, result,
                   initial_message, draining, history, redelivered,
                   blackboard, router, investigation, handoff_turn,
                   alertmanager_url, answered, building>>

\* the activity of fetch_alerts raises or returns: the error text with
\* the cache left as it is, or the alerts stored and summed up
FetchAlertsReturns(c) ==
    /\ c.pc = "fetch_run"
    /\ tool' = Without(c)
    /\ \/ /\ returned' = ReturnedTool("fetch_alerts", FetchError)
          /\ last_fetched_alerts' = last_fetched_alerts
       \/ \E alerts \in FetchedAlerts :
             /\ last_fetched_alerts' = alerts
             /\ returned' = ReturnedTool("fetch_alerts", AlertsSummary(alerts))
    /\ UNCHANGED <<_state, _config, flags, turn_count, pc, result,
                   initial_message, draining, history, redelivered,
                   blackboard, router, investigation, handoff_turn,
                   alertmanager_url, answered, building>>

InitAgents ==
    /\ SessionFields
    /\ alertmanager_url \in AlertmanagerUrls
    /\ InitBlackboard
    /\ NoBuilding
    /\ NoRouter
    /\ NoInvestigation

NextAgents ==
    \/ Signal
    \/ Run
    \/ InvestigationAgentCallsTools
    \/ \E c \in BagToSet(tool) : AskUserResume(c)
    \/ \E c \in BagToSet(tool) : SelectResume(c)
    \/ \E c \in BagToSet(tool) : SpecialistReturns(c)
    \/ investigate_alert
    \/ fetch_alerts
    \/ \E c \in BagToSet(tool) : FetchAlertsReturns(c)

SpecAgents == InitAgents /\ [][NextAgents]_vars

\* The tool calls of one turn of the InvestigationAgent, with the signals
\* that arrive while they are running.
InitTurnTools ==
    /\ _state = [WorkflowState EXCEPT
                    !.status = "RUNNING",
                    !.messages = <<ChatMessage("user", "prod")>>]
    /\ _config = [max_turns |-> MaxTurns]
    /\ _pending_user_response = None
    /\ _has_pending_input = FALSE
    /\ _should_end = FALSE
    /\ _pending_confirmation = FALSE
    /\ _confirmation_response = Null
    /\ _pending_agent_selection = FALSE
    /\ _selected_agent = None
    /\ turn_count = 1
    /\ pc = "in_turn"
    /\ result = None
    /\ initial_message = "prod"
    /\ tool = EmptyBag
    /\ returned = NoReturn
    /\ draining = FALSE
    /\ delivered = 0
    /\ responseSeq = 0
    /\ selDelivered = 0
    /\ lastSelection = None
    /\ redelivered = 0
    /\ handoff_turn = 0
    /\ answered = 0
    /\ last_fetched_alerts = <<>>
    /\ alertmanager_url \in AlertmanagerUrls
    /\ InitBlackboard
    /\ NoBuilding
    /\ NoRouter
    /\ NoInvestigation

NextTurnTools ==
    \/ send_message
    \/ end_workflow
    \/ provide_confirmation
    \/ provide_agent_selection
    \/ CallTools
    \/ \E c \in BagToSet(tool) : AskUserResume(c)
    \/ \E c \in BagToSet(tool) : SelectResume(c)
    \/ \E c \in BagToSet(tool) : SpecialistReturns(c)
    \/ fetch_alerts
    \/ \E c \in BagToSet(tool) : FetchAlertsReturns(c)

SpecTurnTools == InitTurnTools /\ [][NextTurnTools]_vars

\* ---------------------------------------------------------------------
\* The blackboard: SharedContext (models/investigation.py) and the tools
\* that read and write it (workflows/agents/shared_context_tools.py).
\* A confidence is held in hundredths: 95 is 0.95.
\* ---------------------------------------------------------------------
Keys == {"osd:osd.5", "host:compute-01"}
Values == {"down"}
Confidences == {-1, 60, 90, 95, 101}
Thresholds == {80, 90}

\* the name the session binds its blackboard tools to
AgentNames == {"InvestigationAgent"}

\* arguments of get_shared_context
FilterKeys == {None, "", "osd:"}

\* arguments of add_group
IndexLists == {<<0>>, <<1, 0>>, <<-1>>}

SharedFinding(key, value, confidence, agent_name) ==
    [key |-> key, value |-> value, confidence |-> confidence,
     agent_name |-> agent_name]

InvestigationGroup(name, finding_indices, analysis, agent_name) ==
    [name |-> name, finding_indices |-> finding_indices,
     analysis |-> analysis, agent_name |-> agent_name]

\* Field(..., ge=0.0, le=1.0)
ValidConfidence(confidence) == confidence >= 0 /\ confidence <= 100

\* add_finding bringing the confidence into range instead of failing
add_finding_Clamping(fs, key, value, confidence, agent_name) ==
    LET clamped == IF confidence < 0 THEN 0
                   ELSE IF confidence > 100 THEN 100 ELSE confidence
    IN [raised |-> FALSE,
        findings |-> Append(fs, SharedFinding(key, value, clamped, agent_name))]

\* SharedContext.add_finding on the findings fs: whether it raises the
\* validation error of SharedFinding, and the findings afterwards
add_finding(fs, key, value, confidence, agent_name) ==
    IF ~ValidConfidence(confidence)
    THEN [raised |-> TRUE, findings |-> fs]
    ELSE [raised |-> FALSE,
          findings |-> Append(fs, SharedFinding(key, value, confidence,
                                                agent_name))]

\* SharedContext.add_group on the groups gs
add_group(gs, name, finding_indices, analysis, agent_name) ==
    [raised |-> FALSE,
     groups |-> Append(gs, InvestigationGroup(name, finding_indices,
                                              analysis, agent_name))]

\* f"{confidence:.2f}" of a confidence in hundredths: the digits before
\* and after the point
Fmt2f(confidence) ==
    <<confidence \div 100, ".", (confidence % 100) \div 10, confidence % 10>>

\* one element of "lines" in format_summary
SummaryLine(i, finding) ==
    <<"finding", i, finding.agent_name, finding.key, finding.value,
      Fmt2f(finding.confidence)>>

NoFindingsLine == <<"No findings recorded yet.">>
SummaryHeader == <<"=== Shared Context Findings ===">>

\* format_summary listing the newest finding first
format_summary_NewestFirst(fs) ==
    IF fs = <<>> THEN <<NoFindingsLine>>
    ELSE <<SummaryHeader>> \o
         [i \in 1..Len(fs) |-> SummaryLine(i, fs[Len(fs) + 1 - i])]

\* SharedContext.format_summary: the lines that it joins with "\n"
format_summary(fs) ==
    IF fs = <<>> THEN <<NoFindingsLine>>
    ELSE <<SummaryHeader>> \o [i \in 1..Len(fs) |-> SummaryLine(i, fs[i])]

\* sorted(seq, key=lambda x: x.confidence, reverse=True): a stable sort,
\* equal confidences keep the order they have in seq
RECURSIVE sorted_by_confidence_reverse(_)
sorted_by_confidence_reverse(seq) ==
    IF seq = <<>> THEN <<>>
    ELSE LET x == seq[Len(seq)]
             front == sorted_by_confidence_reverse(SubSeq(seq, 1, Len(seq) - 1))
             ahead == SelectSeq(front, LAMBDA f : f.confidence >= x.confidence)
             behind == SelectSeq(front, LAMBDA f : f.confidence < x.confidence)
         IN ahead \o <<x>> \o behind

\* get_high_confidence_root_causes without the sort
get_high_confidence_root_causes_Unsorted(fs, threshold) ==
    SelectSeq(fs, LAMBDA f : f.confidence >= threshold)

\* SharedContext.get_high_confidence_root_causes
get_high_confidence_root_causes(fs, threshold) ==
    LET high_conf == SelectSeq(fs, LAMBDA f : f.confidence >= threshold)
    IN sorted_by_confidence_reverse(high_conf)

\* filter_key in key, and key.startswith(filter_key), for the keys and
\* filters of the model
KeyContains(filter_key, key) ==
    filter_key = "" \/ <<filter_key, key>> \in {<<"osd:", "osd:osd.5">>}

KeyStartsWith(filter_key, key) ==
    filter_key = "" \/ <<filter_key, key>> \in {<<"osd:", "osd:osd.5">>}

\* SharedContext.get_findings
get_findings(fs, filter_key, min_confidence) ==
    SelectSeq(fs, LAMBDA finding :
        /\ ~(min_confidence > 0 /\ finding.confidence < min_confidence)
        /\ (filter_key \notin {None, ""}) =>
              ~(~KeyStartsWith(filter_key, finding.key)
                  /\ ~KeyContains(filter_key, finding.key)))

\* one finding line of get_shared_context
ContextLine(f) ==
    <<"  - ", f.agent_name, f.key, f.value, Fmt2f(f.confidence)>>

ContextLines(fs) == [i \in 1..Len(fs) |-> ContextLine(fs[i])]

\* the lines get_shared_context returns for the blackboard fs
get_shared_context_lines(fs, filter_key) ==
    LET found == get_findings(fs, filter_key, 0)
        high_conf == SelectSeq(found, LAMBDA f : f.confidence >= 80)
        medium_conf == SelectSeq(found, LAMBDA f :
                           50 <= f.confidence /\ f.confidence < 80)
        low_conf == SelectSeq(found, LAMBDA f : f.confidence < 50)
    IN IF found = <<>>
       THEN IF filter_key \notin {None, ""}
            THEN <<<<"No findings in shared context matching", filter_key>>>>
            ELSE <<<<"No findings in shared context yet. You are the first to investigate.">>>>
       ELSE <<<<"=== Shared Context", Len(found)>>>>
            \o (IF high_conf # <<>>
                THEN <<<<"** HIGH CONFIDENCE (likely root causes) **">>>>
                     \o ContextLines(high_conf) ELSE <<>>)
            \o (IF medium_conf # <<>>
                THEN <<<<"** MEDIUM CONFIDENCE **">>>> \o ContextLines(medium_conf)
                ELSE <<>>)
            \o (IF low_conf # <<>>
                THEN <<<<"** LOW CONFIDENCE (observations) **">>>>
                     \o ContextLines(low_conf) ELSE <<>>)

\* msgs[-10:]
Last10(msgs) ==
    IF Len(msgs) <= 10 THEN msgs ELSE SubSeq(msgs, Len(msgs) - 9, Len(msgs))

\* _build_conversation_input: the lines of the transcript a turn is run on
_build_conversation_input(messages, fs) ==
    IF messages = <<>>
    THEN <<<<"Hello, I'm ready to help investigate infrastructure issues.">>>>
    ELSE LET shown == Last10(messages) IN
         <<<<"## Conversation History">>>>
         \o [k \in 1..Len(shown) |->
               <<IF shown[k].role = "user" THEN "User" ELSE "Assistant",
                 shown[k].content>>]
         \o (IF fs # <<>>
             THEN <<<<"## Current Investigation Findings">>>> \o format_summary(fs)
             ELSE <<>>)

\* the variables of the session that the blackboard calls leave alone
workflow == <<_state, _config, flags, turn_count, pc, result,
              initial_message, tool, returned, draining, history, redelivered,
              alerting, answered>>

session == <<workflow, building>>

\* what the agent is told when a function tool raises
ToolErrorNotice == <<"An error occurred while running the tool.">>

\* update_shared_context of tools bound to a copy of the session's
\* SharedContext: the finding does not reach the shared one
update_shared_context_OnCopy(agent_name, key, value, confidence) ==
    /\ Len(recorded) < MaxFindings
    /\ LET r == add_finding(findings, key, value, confidence, agent_name) IN
       /\ findings' = findings
       /\ reply' = [op |-> "update_shared_context",
                    raised |-> r.raised,
                    out |-> IF r.raised THEN <<ToolErrorNotice>>
                            ELSE <<<<"Finding recorded", agent_name, key, value,
                                     Fmt2f(confidence)>>>>]
       /\ recorded' = IF r.raised THEN recorded
                      ELSE Append(recorded,
                                  SharedFinding(key, value, confidence, agent_name))
    /\ UNCHANGED <<session, router, investigation, groups, summary>>

\* the tool update_shared_context of an agent bound to agent_name
update_shared_context(agent_name, key, value, confidence) ==
    /\ Len(findings) < MaxFindings
    /\ LET r == add_finding(findings, key, value, confidence, agent_name) IN
       /\ findings' = r.findings
       /\ reply' = [op |-> "update_shared_context",
                    raised |-> r.raised,
                    out |-> IF r.raised THEN <<ToolErrorNotice>>
                            ELSE <<<<"Finding recorded", agent_name, key, value,
                                     Fmt2f(confidence)>>>>]
       /\ recorded' = IF r.raised THEN recorded
                      ELSE Append(recorded,
                                  SharedFinding(key, value, confidence, agent_name))
    /\ UNCHANGED <<session, router, investigation, groups, summary>>

\* the tool get_shared_context
get_shared_context(filter_key) ==
    /\ reply' = [op |-> "get_shared_context",
                 filter_key |-> filter_key,
                 out |-> get_shared_context_lines(findings, filter_key)]
    /\ UNCHANGED <<session, router, investigation, findings, groups, summary, recorded>>

\* a call of SharedContext.add_group
CallAddGroup(finding_indices) ==
    /\ Len(groups) < MaxGroups
    /\ LET r == add_group(groups, "Ceph Cluster Failure", finding_indices,
                          "related", "InvestigationAgent") IN
       /\ groups' = r.groups
       /\ reply' = [op |-> "add_group", raised |-> r.raised]
    /\ UNCHANGED <<session, router, investigation, findings, summary, recorded>>

\* a call of SharedContext.format_summary
CallFormatSummary ==
    /\ summary' = format_summary(findings)
    /\ reply' = [op |-> "format_summary"]
    /\ UNCHANGED <<session, router, investigation, findings, groups, recorded>>

\* a call of SharedContext.get_high_confidence_root_causes
CallGetRootCauses(threshold) ==
    /\ reply' = [op |-> "get_high_confidence_root_causes",
                 threshold |-> threshold,
                 out |-> get_high_confidence_root_causes(findings, threshold)]
    /\ UNCHANGED <<session, router, investigation, findings, groups, summary, recorded>>

\* run() builds the transcript of the next turn
BuildConversation ==
    /\ reply' = [op |-> "_build_conversation_input",
                 out |-> _build_conversation_input(_state.messages, findings)]
    /\ UNCHANGED <<session, router, investigation, findings, groups, summary, recorded>>

\* a session in its first turn, as RunStart and RunSetup leave it when
\* run() is started with the initial message "prod"
InitInTurn ==
    /\ _state = [WorkflowState EXCEPT
                    !.status = "RUNNING",
                    !.messages = <<ChatMessage("user", "prod")>>]
    /\ _config = [max_turns |-> MaxTurns]
    /\ _pending_user_response = None
    /\ _has_pending_input = FALSE
    /\ _should_end = FALSE
    /\ _pending_confirmation = FALSE
    /\ _confirmation_response = Null
    /\ _pending_agent_selection = FALSE
    /\ _selected_agent = None
    /\ turn_count = 1
    /\ pc = "in_turn"
    /\ result = None
    /\ initial_message = "prod"
    /\ tool = EmptyBag
    /\ returned = NoReturn
    /\ draining = FALSE
    /\ delivered = 0
    /\ responseSeq = 0
    /\ selDelivered = 0
    /\ lastSelection = None
    /\ redelivered = 0
    /\ handoff_turn = 0
    /\ answered = 0
    /\ last_fetched_alerts = <<>>
    /\ alertmanager_url = None

\* The calls the agents of a session make on its blackboard, in any order.
UpdateSharedContext ==
    \E agent_name \in AgentNames, key \in Keys, value \in Values,
       confidence \in Confidences :
        update_shared_context(agent_name, key, value, confidence)

GetSharedContext == \E filter_key \in FilterKeys : get_shared_context(filter_key)

AddGroup == \E finding_indices \in IndexLists : CallAddGroup(finding_indices)

GetRootCauses == \E threshold \in Thresholds : CallGetRootCauses(threshold)

NextBlackboard ==
    \/ UpdateSharedContext
    \/ GetSharedContext
    \/ AddGroup
    \/ CallFormatSummary
    \/ GetRootCauses
    \/ BuildConversation

InitBoard == InitInTurn /\ InitBlackboard /\ NoRouter /\ NoInvestigation /\ NoBuilding

SpecBlackboard == InitBoard /\ [][NextBlackboard]_vars

\* ---------------------------------------------------------------------
\* The router (workflows/agents/router_agent.py).  A text is the sequence
\* of its characters.
\* ---------------------------------------------------------------------
KEYWORD_MAPPINGS ==
    "KubernetesSpecialist" :>
        {<<"p", "o", "d">>,
         <<"d", "e", "p", "l", "o", "y", "m", "e", "n", "t">>,
         <<"r", "e", "p", "l", "i", "c", "a", "s", "e", "t">>,
         <<"d", "a", "e", "m", "o", "n", "s", "e", "t">>,
         <<"s", "t", "a", "t", "e", "f", "u", "l", "s", "e", "t">>,
         <<"s", "e", "r", "v", "i", "c", "e">>,
         <<"i", "n", "g", "r", "e", "s", "s">>,
         <<"c", "o", "n", "f", "i", "g", "m", "a", "p">>,
         <<"n", "a", "m", "e", "s", "p", "a", "c", "e">>,
         <<"k", "u", "b", "e", "l", "e", "t">>,
         <<"c", "o", "n", "t", "a", "i", "n", "e", "r">>,
         <<"n", "o", "d", "e">>, <<"e", "v", "e", "n", "t">>,
         <<"s", "c", "h", "e", "d", "u", "l", "e">>, <<"p", "v", "c">>,
         <<"p", "e", "r", "s", "i", "s", "t", "e", "n", "t", "v", "o", "l", "u", "m", "e", "c", "l", "a", "i", "m">>}
    @@
    "CephSpecialist" :>
        {<<"c", "e", "p", "h">>, <<"r", "b", "d">>, <<"p", "v", "c">>,
         <<"p", "e", "r", "s", "i", "s", "t", "e", "n", "t", "v", "o", "l", "u", "m", "e">>,
         <<"p", "e", "r", "s", "i", "s", "t", "e", "n", "t", "v", "o", "l", "u", "m", "e", "c", "l", "a", "i", "m">>,
         <<"s", "t", "o", "r", "a", "g", "e", "c", "l", "a", "s", "s">>,
         <<"c", "s", "i">>, <<"r", "o", "o", "k">>,
         <<"o", "b", "j", "e", "c", "t", "s", "t", "o", "r", "e">>,
         <<"b", "l", "o", "c", "k">>,
         <<"f", "i", "l", "e", "s", "y", "s", "t", "e", "m">>,
         <<"o", "s", "d">>, <<"m", "o", "n">>, <<"m", "g", "r">>,
         <<"r", "g", "w">>, <<"m", "d", "s">>, <<"c", "r", "u", "s", "h">>,
         <<"p", "l", "a", "c", "e", "m", "e", "n", "t", " ", "g", "r", "o", "u", "p">>,
         <<"p", "g">>}
    @@
    "GrafanaSpecialist" :>
        {<<"g", "r", "a", "f", "a", "n", "a">>,
         <<"d", "a", "s", "h", "b", "o", "a", "r", "d">>,
         <<"d", "a", "t", "a", "s", "o", "u", "r", "c", "e">>,
         <<"p", "a", "n", "e", "l">>, <<"l", "o", "k", "i">>,
         <<"p", "r", "o", "m", "e", "t", "h", "e", "u", "s">>,
         <<"a", "l", "e", "r", "t", "m", "a", "n", "a", "g", "e", "r">>,
         <<"q", "u", "e", "r", "y">>, <<"m", "e", "t", "r", "i", "c">>,
         <<"l", "o", "g">>, <<"t", "r", "a", "c", "e">>,
         <<"t", "e", "m", "p", "o">>, <<"m", "i", "m", "i", "r">>,
         <<"a", "l", "e", "r", "t", "i", "n", "g">>}

\* dict order of KEYWORD_MAPPINGS
KeywordMappingNames ==
    <<"KubernetesSpecialist", "CephSpecialist", "GrafanaSpecialist">>

\* the characters of the texts the tool is called with
Alphabet == {"p", "o", "d", "r", "b", "g", "l", "P"}

Texts == UNION {[1..n -> Alphabet] : n \in 0..MaxLen}

\* the names new_router_agent can be given as available_specialists
RegisteredNames ==
    {"KubernetesSpecialist", "CephSpecialist", "GrafanaSpecialist",
     "cephspecialist", "NetworkSpecialist"}

\* str.lower() on one character of the alphabet
LowerChar(ch) == IF ch = "P" THEN "p" ELSE ch

\* str.lower() on a text
lower(text) == [k \in 1..Len(text) |-> LowerChar(text[k])]

\* str.lower() on a specialist name
LowerName(name) ==
    CASE name = "KubernetesSpecialist" -> "kubernetesspecialist"
      [] name = "CephSpecialist" -> "cephspecialist"
      [] name = "GrafanaSpecialist" -> "grafanaspecialist"
      [] name = "NetworkSpecialist" -> "networkspecialist"
      [] OTHER -> name

\* keyword in text
SubstringOf(keyword, text) ==
    \E i \in 1..(Len(text) - Len(keyword) + 1) :
        SubSeq(text, i, i + Len(keyword) - 1) = keyword

\* available_set = {s.lower() for s in available_specialists}
available_set(specialists) == {LowerName(s) : s \in specialists}

\* one pass of the loop over KEYWORD_MAPPINGS.items(): the suggestions
\* after the entry of specialist_name has been looked at
SuggestFor(suggestions_so_far, specialist_name, avail, context_lower) ==
    LET matched_keywords ==
            {keyword \in KEYWORD_MAPPINGS[specialist_name] :
                SubstringOf(keyword, context_lower)}
        already == \E k \in 1..Len(suggestions_so_far) :
                      suggestions_so_far[k].name = specialist_name
    IN IF LowerName(specialist_name) \notin avail THEN suggestions_so_far
       ELSE IF matched_keywords = {} THEN suggestions_so_far
       ELSE IF already
            THEN [k \in 1..Len(suggestions_so_far) |->
                    IF suggestions_so_far[k].name = specialist_name
                    THEN [suggestions_so_far[k] EXCEPT !.matched = matched_keywords]
                    ELSE suggestions_so_far[k]]
            ELSE Append(suggestions_so_far,
                        [name |-> specialist_name, baseline |-> FALSE,
                         matched |-> matched_keywords])

RECURSIVE SuggestLoop(_, _, _, _)
SuggestLoop(suggestions_so_far, k, avail, context_lower) ==
    IF k > Len(KeywordMappingNames) THEN suggestions_so_far
    ELSE SuggestLoop(SuggestFor(suggestions_so_far, KeywordMappingNames[k],
                                avail, context_lower),
                     k + 1, avail, context_lower)

\* suggest_specialists with the baseline added whether available or not
suggest_specialists_BaselineAlways(specialists, text) ==
    SuggestLoop(<<[name |-> "KubernetesSpecialist", baseline |-> TRUE,
                   matched |-> {}]>>,
                1, available_set(specialists), lower(text))

\* suggest_specialists_tool of a router created for the given specialists:
\* the dict "suggestions" (name, reason) in insertion order
suggest_specialists(specialists, text) ==
    LET avail == available_set(specialists)
        baseline == IF "kubernetesspecialist" \in avail
                    THEN <<[name |-> "KubernetesSpecialist", baseline |-> TRUE,
                            matched |-> {}]>>
                    ELSE <<>>
    IN SuggestLoop(baseline, 1, avail, lower(text))

\* new_router_agent(model, available_specialists) and the text its tool is
\* called with
InitRouter ==
    /\ InitSession
    /\ InitBlackboard
    /\ NoBuilding
    /\ context \in Texts
    /\ available_specialists \in SUBSET RegisteredNames
    /\ suggestions = Null
    /\ outputs = <<>>
    /\ keyword_order = NoOrder
    /\ NoInvestigation

\* the router's tool is called
suggest_specialists_tool ==
    /\ suggestions = Null
    /\ suggestions' = Some(suggest_specialists(available_specialists, context))
    /\ UNCHANGED <<session, blackboard, investigation, context, available_specialists,
                   outputs, keyword_order>>

NextRouter == suggest_specialists_tool

SpecRouter == InitRouter /\ [][NextRouter]_vars

\* ---------------------------------------------------------------------
\* The router's tool called more than once on one text, by worker
\* processes.  KEYWORD_MAPPINGS holds sets of strings: the order in which
\* "for keyword in keywords" visits a set follows the string hashes, which
\* are salted per process (PYTHONHASHSEED), so it is fixed within a process
\* and any order across processes.
\* ---------------------------------------------------------------------
\* the characters of the texts: they spell rbd and pg
RouterAlphabet == {"p", "g", "r", "b", "d"}

RouterTexts == UNION {[1..n -> RouterAlphabet] : n \in 0..MaxText}

RouterNames == {"KubernetesSpecialist", "cephspecialist"}

\* the sequences that list every element of the set S once
Orders(S) ==
    {sq \in [1..Cardinality(S) -> S] :
        \A i, j \in 1..Cardinality(S) : i # j => sq[i] # sq[j]}

\* the keywords of the specialist the loop appends to matched_keywords
MatchedKeywords(specialist_name, context_lower) ==
    {keyword \in KEYWORD_MAPPINGS[specialist_name] :
        SubstringOf(keyword, context_lower)}

\* the orders in which a process can visit the matching keywords of each
\* entry of KEYWORD_MAPPINGS
IterationOrders(context_lower) ==
    {order \in [DOMAIN KEYWORD_MAPPINGS ->
                   UNION {Orders(MatchedKeywords(n, context_lower)) :
                             n \in DOMAIN KEYWORD_MAPPINGS}] :
        \A n \in DOMAIN KEYWORD_MAPPINGS :
            order[n] \in Orders(MatchedKeywords(n, context_lower))}

\* the lines "- name: reason" of the output: the reason is the baseline
\* text, "Matched keywords: " followed by matched_keywords in the order
\* they were appended, or both
OutputLines(suggested, order) ==
    [k \in 1..Len(suggested) |->
        [name |-> suggested[k].name,
         baseline |-> suggested[k].baseline,
         matched_keywords |-> IF suggested[k].matched = {} THEN <<>>
                              ELSE order[suggested[k].name]]]

InitRouterCalls ==
    /\ InitSession
    /\ InitBlackboard
    /\ NoBuilding
    /\ context \in RouterTexts
    /\ available_specialists \in SUBSET RouterNames
    /\ suggestions = Null
    /\ outputs = <<>>
    /\ keyword_order = NoOrder
    /\ NoInvestigation

\* the router's tool is called in a worker process
suggest_specialists_tool_in(process) ==
    /\ Len(outputs) < MaxCalls
    /\ \E order \in IterationOrders(lower(context)) :
          /\ keyword_order[process] # Null => order \in keyword_order[process]
          /\ keyword_order' = [keyword_order EXCEPT ![process] = Some(order)]
          /\ outputs' =
                Append(outputs,
                       OutputLines(suggest_specialists(available_specialists,
                                                       context), order))
    /\ UNCHANGED <<session, blackboard, investigation, context, available_specialists,
                   suggestions>>

NextRouterCalls == \E process \in Processes : suggest_specialists_tool_in(process)

SpecRouterCalls == InitRouterCalls /\ [][NextRouterCalls]_vars

\* ---------------------------------------------------------------------
\* The investigation utilities (workflows/investigation_utils.py).
\* A confidence, a threshold and a score are numbers of hundredths or of
\* finer units; a root-cause text is the sequence of its words; a timestamp
\* is a string.
\* ---------------------------------------------------------------------
\* AlertFindings: what one round found out about one alert
AlertFindings(alert_id, timestamp, root_cause_assessment, affected_layers, affected_resources, scope, confidence) ==
    [alert_id |-> alert_id,
     timestamp |-> timestamp,
     root_cause_assessment |-> root_cause_assessment,
     affected_layers |-> affected_layers,
     affected_resources |-> affected_resources,
     scope |-> scope,
     confidence |-> confidence]

\* the lists of at most n elements of S
ListsOf(S, n) == UNION {[1..k -> S] : k \in 0..n}

\* set(list)
ToSet(list) == {list[k] : k \in 1..Len(list)}

\* sum(list) for a list of numbers
RECURSIVE sum(_)
sum(list) == IF list = <<>> THEN 0 ELSE Head(list) + sum(Tail(list))

\* [x for x in list if x > 0]
RECURSIVE positive(_)
positive(list) ==
    IF list = <<>> THEN <<>>
    ELSE IF Head(list) > 0 THEN <<Head(list)>> \o positive(Tail(list))
         ELSE positive(Tail(list))

\* {f.alert_id: f for f in list}: the keys, and the value of a key (the
\* last entry of the list with that alert_id)
alert_ids(list) == {list[k].alert_id : k \in 1..Len(list)}

by_alert_id(list, alert_id) ==
    LET last == CHOOSE k \in 1..Len(list) :
                    /\ list[k].alert_id = alert_id
                    /\ \A j \in (k + 1)..Len(list) : list[j].alert_id # alert_id
    IN list[last]

\* 1.0 and 0.01 in the unit of the convergence scores
One == 6000
Hundredth == 60

\* str.lower() on a word of a root-cause text
LowerWord(word) == IF word = "OSD" THEN "osd" ELSE word

\* str.lower() on a root-cause text
LowerWords(text) == [k \in 1..Len(text) |-> LowerWord(text[k])]

\* word in text, for the words of the model: none of them is part of
\* another one or of two adjacent ones
WordIn(word, text) == \E k \in 1..Len(text) : text[k] = word

\* rc_score of calculate_convergence
rc_score(prev, curr) ==
    LET rc_prev == LowerWords(prev.root_cause_assessment)
        rc_curr == LowerWords(curr.root_cause_assessment)
        first5 == SubSeq(rc_prev, 1, IF Len(rc_prev) < 5 THEN Len(rc_prev) ELSE 5)
    IN IF rc_prev = rc_curr THEN One
       ELSE IF \E k \in 1..Len(first5) : WordIn(first5[k], rc_curr)
            THEN One \div 2
            ELSE 0

\* layer_score as the plain ratio, 0 when neither round names a layer
layer_score_EmptyIsZero(prev, curr) ==
    LET prev_layers == ToSet(prev.affected_layers)
        curr_layers == ToSet(curr.affected_layers)
    IN IF prev_layers # {} \/ curr_layers # {}
       THEN (One * Cardinality(prev_layers \cap curr_layers))
                \div Cardinality(prev_layers \cup curr_layers)
       ELSE 0

\* layer_score of calculate_convergence
layer_score(prev, curr) ==
    LET prev_layers == ToSet(prev.affected_layers)
        curr_layers == ToSet(curr.affected_layers)
    IN IF prev_layers # {} \/ curr_layers # {}
       THEN (One * Cardinality(prev_layers \cap curr_layers))
                \div Cardinality(prev_layers \cup curr_layers)
       ELSE One

\* conf_score of calculate_convergence
conf_score(prev, curr) ==
    LET conf_diff == IF prev.confidence >= curr.confidence
                     THEN prev.confidence - curr.confidence
                     ELSE curr.confidence - prev.confidence
        capped == IF conf_diff * Hundredth < One THEN conf_diff * Hundredth
                  ELSE One
    IN One - capped

\* alert_convergence of calculate_convergence
alert_convergence(prev, curr) ==
    (rc_score(prev, curr) * 5 + layer_score(prev, curr) * 3
        + conf_score(prev, curr) * 2) \div 10

\* sum(convergence_scores) over the alert ids of both rounds
RECURSIVE SumOfScores(_, _, _)
SumOfScores(ids, previous, current) ==
    IF ids = {} THEN 0
    ELSE LET alert_id == CHOOSE x \in ids : TRUE IN
         alert_convergence(by_alert_id(previous, alert_id),
                           by_alert_id(current, alert_id))
             + SumOfScores(ids \ {alert_id}, previous, current)

\* a quotient total / count, kept as its two terms
Quotient(total, count) == [total |-> total, count |-> count]

Zero == Quotient(0, 1)

\* calculate_convergence(previous_findings, current_findings)
calculate_convergence(previous, current) ==
    IF previous = <<>> \/ current = <<>> THEN Zero
    ELSE LET both == alert_ids(current) \cap alert_ids(previous) IN
         IF both # {}
         THEN Quotient(SumOfScores(both, previous, current), Cardinality(both))
         ELSE Zero

\* quotient >= threshold, the quotient in the unit of the scores and the
\* threshold in hundredths
ScoreAtLeast(quotient, threshold) ==
    quotient.total >= threshold * Hundredth * quotient.count

\* the reasons check_exit_conditions reports
MaxRoundsReached == "Max rounds reached"
ConfidenceReached == "Confidence threshold reached"
ConvergenceReached == "Convergence threshold reached"
AssessmentsUnchanged == "No new findings - assessments unchanged"
NoReason == ""

\* the average taken over every finding of the list
ConfidenceAtLeast_AllCounted(list, threshold) ==
    LET confidences == [k \in 1..Len(list) |-> list[k].confidence]
    IN IF confidences # <<>>
       THEN sum(confidences) >= threshold * Len(confidences)
       ELSE 0 >= threshold

\* avg_confidence >= config.confidence_threshold, in hundredths
ConfidenceAtLeast(list, threshold) ==
    LET confidences == positive([k \in 1..Len(list) |-> list[k].confidence])
    IN IF confidences # <<>>
       THEN sum(confidences) >= threshold * Len(confidences)
       ELSE 0 >= threshold

\* {f.alert_id: f.root_cause_assessment for f in list}
root_causes(list) ==
    [alert_id \in alert_ids(list) |->
        by_alert_id(list, alert_id).root_cause_assessment]

\* check_exit_conditions with the confidence looked at before the rounds
check_exit_conditions_ConfidenceFirst(list, previous, round, cfg) ==
    IF ConfidenceAtLeast(list, cfg.confidence_threshold)
    THEN [should_exit |-> TRUE, reason |-> ConfidenceReached]
    ELSE IF round >= cfg.max_rounds
    THEN [should_exit |-> TRUE, reason |-> MaxRoundsReached]
    ELSE [should_exit |-> FALSE, reason |-> NoReason]

\* check_exit_conditions(findings, previous_findings, round_number, config)
check_exit_conditions(list, previous, round, cfg) ==
    IF round >= cfg.max_rounds
    THEN [should_exit |-> TRUE, reason |-> MaxRoundsReached]
    ELSE IF ConfidenceAtLeast(list, cfg.confidence_threshold)
    THEN [should_exit |-> TRUE, reason |-> ConfidenceReached]
    ELSE IF /\ previous # <<>> /\ round > 1
            /\ ScoreAtLeast(calculate_convergence(previous, list),
                            cfg.convergence_threshold)
    THEN [should_exit |-> TRUE, reason |-> ConvergenceReached]
    ELSE IF /\ previous # <<>> /\ round > 1
            /\ root_causes(previous) = root_causes(list)
    THEN [should_exit |-> TRUE, reason |-> AssessmentsUnchanged]
    ELSE [should_exit |-> FALSE, reason |-> NoReason]

\* the findings the exit policy is applied to
RootCauses == {<<"OSD", "down">>, <<"disk", "full">>}

ExitFindings ==
    {AlertFindings(alert_id, "", root_cause, layers, <<>>, "", confidence) :
        alert_id \in {"a1", "a2"}, root_cause \in RootCauses,
        layers \in {<<>>, <<"storage">>}, confidence \in {0, 90}}

\* the previous round's findings: none (first round) or those of alert a1
PreviousFindings ==
    ListsOf({finding \in ExitFindings : finding.alert_id = "a1"}, 1)

RoundConfigs == {MultiRoundConfig(TRUE, MaxRounds, 80, 90)}

InitExit ==
    /\ InitSession
    /\ InitBlackboard
    /\ NoBuilding
    /\ NoRouter
    /\ current_findings \in ListsOf(ExitFindings, MaxAlerts)
    /\ previous_findings \in PreviousFindings
    /\ round_number \in 1..(MaxRounds + 1)
    /\ round_config \in RoundConfigs
    /\ utility_result = NoOutcome
    /\ correlation = "start"

\* check_exit_conditions is called on the findings of the round
CheckExitConditions ==
    /\ utility_result' =
          [op |-> "check_exit_conditions",
           exit |-> check_exit_conditions(current_findings, previous_findings,
                                          round_number, round_config)]
    /\ UNCHANGED <<session, blackboard, router, current_findings,
                   previous_findings, round_number, round_config, correlation>>

\* calculate_convergence is called on the two rounds
CalculateConvergence ==
    /\ utility_result' =
          [op |-> "calculate_convergence",
           previous |-> previous_findings,
           current |-> current_findings,
           convergence |-> calculate_convergence(previous_findings,
                                                 current_findings)]
    /\ UNCHANGED <<session, blackboard, router, current_findings,
                   previous_findings, round_number, round_config, correlation>>

\* calculate_convergence is called with one round as both arguments
CalculateSelfConvergence ==
    /\ utility_result' =
          [op |-> "calculate_convergence",
           previous |-> current_findings,
           current |-> current_findings,
           convergence |-> calculate_convergence(current_findings,
                                                 current_findings)]
    /\ UNCHANGED <<session, blackboard, router, current_findings,
                   previous_findings, round_number, round_config, correlation>>

NextExit ==
    \/ CheckExitConditions
    \/ CalculateConvergence
    \/ CalculateSelfConvergence

SpecExit == InitExit /\ [][NextExit]_vars

\* ---------------------------------------------------------------------
\* detect_temporal_patterns
\* ---------------------------------------------------------------------
\* the start times of the findings: written in one of the three formats
\* strptime is tried with, in another format, or missing
Timestamps ==
    {"2025-01-01T00:00:00Z", "2025-01-01 00:00:20",
     "2025-01-01T00:00:30.000000Z", "2025-01-01T00:00:40Z",
     "2025-01-01T00:06:00Z", "2025-01-01T00:00:20+00:00", ""}

\* datetime.strptime(ts, fmt) for the three formats in turn: the time in
\* seconds after 2025-01-01T00:00:00, or Null when no format fits
strptime(ts) ==
    CASE ts = "2025-01-01T00:00:00Z" -> Some(0)
      [] ts = "2025-01-01 00:00:20" -> Some(20)
      [] ts = "2025-01-01T00:00:30.000000Z" -> Some(30)
      [] ts = "2025-01-01T00:00:40Z" -> Some(40)
      [] ts = "2025-01-01T00:06:00Z" -> Some(360)
      [] OTHER -> Null

\* the value of a parsed time
Seconds(parsed) == CHOOSE t \in parsed : TRUE

\* timestamped_findings before the sort: the pairs (dt, finding) of the
\* findings whose timestamp is not empty and fits a format
RECURSIVE timestamped(_)
timestamped(list) ==
    IF list = <<>> THEN <<>>
    ELSE LET finding == Head(list) IN
         IF finding.timestamp # "" /\ strptime(finding.timestamp) # Null
         THEN <<[dt |-> Seconds(strptime(finding.timestamp)),
                 finding |-> finding]>> \o timestamped(Tail(list))
         ELSE timestamped(Tail(list))

\* list.sort(key=lambda x: x[0]): a stable sort, by insertion
RECURSIVE insert_by_dt(_, _)
insert_by_dt(sorted, pair) ==
    IF sorted = <<>> THEN <<pair>>
    ELSE IF Head(sorted).dt <= pair.dt
         THEN <<Head(sorted)>> \o insert_by_dt(Tail(sorted), pair)
         ELSE <<pair>> \o sorted

RECURSIVE sort_by_dt(_)
sort_by_dt(pairs) ==
    IF pairs = <<>> THEN <<>>
    ELSE insert_by_dt(sort_by_dt(SubSeq(pairs, 1, Len(pairs) - 1)),
                      pairs[Len(pairs)])

simultaneous_threshold_seconds == 30
cascade_threshold_seconds == 300

\* the inner while loop: the first j after i whose time is more than the
\* threshold after that of i, or the end of the list
RECURSIVE GroupEnd(_, _, _)
GroupEnd(pairs, i, j) ==
    IF j > Len(pairs) THEN j
    ELSE IF pairs[j].dt - pairs[i].dt <= simultaneous_threshold_seconds
         THEN GroupEnd(pairs, i, j + 1)
         ELSE j

\* the outer while loop from i on: simultaneous_groups
RECURSIVE simultaneous_groups(_, _)
simultaneous_groups(pairs, i) ==
    IF i > Len(pairs) THEN <<>>
    ELSE LET j == GroupEnd(pairs, i, i + 1)
             group == SubSeq(pairs, i, j - 1)
         IN (IF Len(group) > 1 THEN <<group>> ELSE <<>>)
                \o simultaneous_groups(pairs, j)

\* [f.alert_id for _, f in group]
AlertIdsOf(group) == [k \in 1..Len(group) |-> group[k].finding.alert_id]

SimultaneousPattern(group) ==
    [type |-> "simultaneous", alert_ids |-> AlertIdsOf(group),
     count |-> Len(group)]

\* the inner for loop of the cascade detection: the sequence from i on
RECURSIVE CascadeFrom(_, _, _, _)
CascadeFrom(pairs, sequence, j, last) ==
    IF j > last THEN sequence
    ELSE LET time_diff == pairs[j].dt - pairs[j - 1].dt IN
         IF 0 < time_diff /\ time_diff <= cascade_threshold_seconds
         THEN CascadeFrom(pairs, Append(sequence, pairs[j]), j + 1, last)
         ELSE sequence

CascadePattern(sequence) ==
    [type |-> "cascade", alert_ids |-> AlertIdsOf(sequence),
     count |-> Len(sequence),
     duration_seconds |-> sequence[Len(sequence)].dt - sequence[1].dt]

\* the outer for loop of the cascade detection from i on
RECURSIVE cascades(_, _)
cascades(pairs, i) ==
    IF Len(pairs) < 3 \/ i > Len(pairs) - 2 THEN <<>>
    ELSE LET last == IF i + 4 < Len(pairs) THEN i + 4 ELSE Len(pairs)
             sequence == CascadeFrom(pairs, <<pairs[i]>>, i + 1, last)
         IN (IF Len(sequence) >= 3 THEN <<CascadePattern(sequence)>> ELSE <<>>)
                \o cascades(pairs, i + 1)

\* detect_temporal_patterns(findings)
detect_temporal_patterns(list) ==
    LET timestamped_findings == sort_by_dt(timestamped(list))
        groups_found == simultaneous_groups(timestamped_findings, 1)
    IN [k \in 1..Len(groups_found) |-> SimultaneousPattern(groups_found[k])]
           \o cascades(timestamped_findings, 1)

TimedFindings ==
    {AlertFindings(alert_id, timestamp, <<"OSD", "down">>, <<>>, <<>>, "", 90) :
        alert_id \in {"a1", "a2", "a3"}, timestamp \in Timestamps}

InitTemporal ==
    /\ InitSession
    /\ InitBlackboard
    /\ NoBuilding
    /\ NoRouter
    /\ current_findings \in ListsOf(TimedFindings, MaxTimed)
    /\ previous_findings = <<>>
    /\ round_number = 1
    /\ round_config = MultiRoundConfig(FALSE, 1, 80, 90)
    /\ utility_result = NoOutcome
    /\ correlation = "start"

\* detect_temporal_patterns is called on the findings of the round
DetectTemporalPatterns ==
    /\ utility_result' =
          [op |-> "detect_temporal_patterns",
           patterns |-> detect_temporal_patterns(current_findings)]
    /\ UNCHANGED <<session, blackboard, router, current_findings,
                   previous_findings, round_number, round_config, correlation>>

NextTemporal == DetectTemporalPatterns

SpecTemporal == InitTemporal /\ [][NextTemporal]_vars

\* ---------------------------------------------------------------------
\* group_by_shared_infrastructure.  A key "scope:x", "resource:x" or
\* "layer:x" is the pair of its two parts.
\* ---------------------------------------------------------------------
\* how many entries of the list are the value
RECURSIVE CountIn(_, _)
CountIn(list, value) ==
    IF list = <<>> THEN 0
    ELSE (IF Head(list) = value THEN 1 ELSE 0) + CountIn(Tail(list), value)

\* how many times the loop body appends the finding to groups[key]
Appended(finding, key) ==
    CASE key[1] = "scope" ->
            IF finding.scope # "" /\ finding.scope = key[2] THEN 1 ELSE 0
      [] key[1] = "resource" -> CountIn(finding.affected_resources, key[2])
      [] key[1] = "layer" -> CountIn(finding.affected_layers, key[2])

\* the finding, times times
RECURSIVE Repeated(_, _)
Repeated(finding, times) ==
    IF times = 0 THEN <<>> ELSE <<finding>> \o Repeated(finding, times - 1)

\* groups[key] after the loop over the findings
RECURSIVE GroupOf(_, _)
GroupOf(list, key) ==
    IF list = <<>> THEN <<>>
    ELSE Repeated(Head(list), Appended(Head(list), key))
            \o GroupOf(Tail(list), key)

\* the keys the loop body makes for one finding
KeysOf(finding) ==
    (IF finding.scope # "" THEN {<<"scope", finding.scope>>} ELSE {})
        \cup {<<"resource", r>> : r \in ToSet(finding.affected_resources)}
        \cup {<<"layer", l>> : l \in ToSet(finding.affected_layers)}

\* the keys of groups after the loop
GroupKeys(list) == UNION {KeysOf(list[k]) : k \in 1..Len(list)}

\* group_by_shared_infrastructure(findings): shared_groups
group_by_shared_infrastructure(list) ==
    LET shared == {key \in GroupKeys(list) : Len(GroupOf(list, key)) > 1}
    IN [key \in shared |-> GroupOf(list, key)]

GroupedFindings ==
    {AlertFindings(alert_id, "", <<"OSD", "down">>, layers, resources, scope, 90) :
        alert_id \in {"a1", "a2"}, layers \in {<<>>, <<"storage">>},
        resources \in {<<>>, <<"osd.5">>, <<"osd.5", "osd.5">>},
        scope \in {"", "ceph"}}

InitGrouping ==
    /\ InitSession
    /\ InitBlackboard
    /\ NoBuilding
    /\ NoRouter
    /\ current_findings \in ListsOf(GroupedFindings, MaxAlerts)
    /\ previous_findings = <<>>
    /\ round_number = 1
    /\ round_config = MultiRoundConfig(FALSE, 1, 80, 90)
    /\ utility_result = NoOutcome
    /\ correlation = "start"

\* group_by_shared_infrastructure is called on the findings of the round
GroupBySharedInfrastructure ==
    /\ utility_result' =
          [op |-> "group_by_shared_infrastructure",
           shared_groups |-> group_by_shared_infrastructure(current_findings)]
    /\ UNCHANGED <<session, blackboard, router, current_findings,
                   previous_findings, round_number, round_config, correlation>>

NextGrouping == GroupBySharedInfrastructure

SpecGrouping == InitGrouping /\ [][NextGrouping]_vars

\* ---------------------------------------------------------------------
\* parse_alert_findings.  Here a text is a string, and a JSON value is
\* kept with its type.
\* ---------------------------------------------------------------------
Number(n) == [type |-> "number", value |-> <<n>>]
String(text) == [type |-> "string", value |-> <<text>>]
List(list) == [type |-> "list", value |-> <<list>>]
JsonNull == [type |-> "null", value |-> <<>>]

\* the value itself
Value(json) == json.value[1]

\* the outputs of the investigating agent
PlainText == "The OSD is down."
LongText == "The OSD is down. (and 600 characters more)"
BracesNoJson == "{not json}"
JsonWithConfidence == "{\"root_cause\": \"OSD down\", \"confidence\": 0.9}"
JsonInText == "Findings: {\"confidence\": \"0.9\"} End."
JsonWordConfidence == "{\"confidence\": \"high\"}"
JsonNullConfidence == "{\"confidence\": null}"

AgentOutputs ==
    {PlainText, LongText, BracesNoJson, JsonWithConfidence, JsonInText,
     JsonWordConfidence, JsonNullConfidence}

\* output[:500] if len(output) > 500 else output
Truncated(output) ==
    IF output = LongText THEN "The OSD is down. (and 483 characters more)"
    ELSE output

\* json_match: output.strip() when it starts with a brace, else what
\* re.search(r'\{.*\}', output, re.DOTALL) matches, else None
JsonMatch(output) ==
    CASE output \in {BracesNoJson, JsonWithConfidence, JsonWordConfidence,
                     JsonNullConfidence} -> Some(output)
      [] output = JsonInText -> Some("{\"confidence\": \"0.9\"}")
      [] OTHER -> Null

\* json.loads(text): the dict, or Null for json.JSONDecodeError
json_loads(text) ==
    CASE text = JsonWithConfidence ->
            Some(("root_cause" :> String("OSD down"))
                    @@ ("confidence" :> Number(90)))
      [] text = "{\"confidence\": \"0.9\"}" -> Some("confidence" :> String("0.9"))
      [] text = JsonWordConfidence -> Some("confidence" :> String("high"))
      [] text = JsonNullConfidence -> Some("confidence" :> JsonNull)
      [] OTHER -> Null

\* dict.get(key, default)
Get(dict, key, default) == IF key \in DOMAIN dict THEN dict[key] ELSE default

\* float(value): the number in hundredths, or the exception raised
float(value) ==
    CASE value.type = "number" -> [raises |-> None, number |-> Value(value)]
      [] value.type = "string" /\ value.value = <<"0.9">> ->
            [raises |-> None, number |-> 90]
      [] value.type = "string" -> [raises |-> "ValueError", number |-> 0]
      [] OTHER -> [raises |-> "TypeError", number |-> 0]

\* the alerts: with or without fingerprint, starts_at and labels
AlertLabels ==
    {<<>>,
     "alertname" :> "CephOSDDown",
     ("instance" :> "ceph-01") @@ ("namespace" :> "ceph"),
     ("pod" :> "") @@ ("node" :> "compute-01") @@ ("region" :> "eu")}

AlertDicts ==
    {fields @@ ("labels" :> labels) :
        fields \in {<<>>,
                    "alertname" :> "CephOSDDown",
                    ("alertname" :> "CephOSDDown") @@ ("fingerprint" :> "a1")
                        @@ ("starts_at" :> "2025-01-01T00:00:00Z")},
        labels \in AlertLabels}

\* a or b or ... over the label fields: the first value that is not empty
RECURSIVE FirstLabel(_, _, _)
FirstLabel(labels, keys, default) ==
    IF keys = <<>> THEN default
    ELSE IF Get(labels, Head(keys), "") # "" THEN labels[Head(keys)]
         ELSE FirstLabel(labels, Tail(keys), default)

\* extract_resource_info(alert)
extract_resource_info(alert) ==
    LET labels == Get(alert, "labels", <<>>) IN
    [resource_name |->
        FirstLabel(labels,
                   <<"pod", "instance", "node", "service", "deployment",
                     "statefulset", "daemonset", "job">>,
                   Get(labels, "alertname", "unknown")),
     scope |-> FirstLabel(labels, <<"namespace", "project", "region">>, "")]

\* the record parse_alert_findings builds: AlertFindings with the name of
\* the alert and the round
ParsedFindings(alert, round, root_cause_assessment, affected_layers, affected_resources, scope, confidence) ==
    [alertname |-> Get(alert, "alertname", "unknown"),
     alert_id |-> Get(alert, "fingerprint", Get(alert, "alertname", "unknown")),
     timestamp |-> Get(alert, "starts_at", ""),
     root_cause_assessment |-> root_cause_assessment,
     affected_layers |-> affected_layers,
     affected_resources |-> affected_resources,
     scope |-> scope,
     confidence |-> confidence,
     round_number |-> round]

\* the fallback of parse_alert_findings
FallbackFindings(output, alert, round) ==
    LET resource_info == extract_resource_info(alert) IN
    ParsedFindings(alert, round, Truncated(output), <<"unknown">>,
                   <<resource_info.resource_name>>, resource_info.scope, 50)

Returns(value) == [raised |-> None, findings |-> <<value>>]
Raises(exception) == [raised |-> exception, findings |-> <<>>]

\* parse_alert_findings(output, alert, round_number)
parse_alert_findings(output, alert, round) ==
    LET resource_info == extract_resource_info(alert)
        json_match == JsonMatch(output)
        loaded == UNION {json_loads(text) : text \in json_match}
    IN IF json_match = Null \/ loaded = Null
       THEN Returns(FallbackFindings(output, alert, round))
       ELSE LET data == CHOOSE d \in loaded : TRUE
                confidence == float(Get(data, "confidence", Number(50)))
            IN IF confidence.raises = "ValueError"
               THEN Returns(FallbackFindings(output, alert, round))
               ELSE IF confidence.raises # None
               THEN Raises(confidence.raises)
               ELSE Returns(ParsedFindings(
                        alert, round,
                        Value(Get(data, "root_cause_assessment",
                                  Get(data, "root_cause", String("Unknown")))),
                        Value(Get(data, "affected_layers", List(<<>>))),
                        Value(Get(data, "affected_resources",
                                  List(<<resource_info.resource_name>>))),
                        Value(Get(data, "scope", String(resource_info.scope))),
                        confidence.number))

InitParse ==
    /\ InitSession
    /\ InitBlackboard
    /\ NoBuilding
    /\ NoRouter
    /\ current_findings = <<>>
    /\ previous_findings = <<>>
    /\ round_number \in 1..MaxRounds
    /\ round_config = MultiRoundConfig(FALSE, 1, 80, 90)
    /\ utility_result \in {[op |-> None, output |-> output, alert |-> alert] :
                             output \in AgentOutputs, alert \in AlertDicts}
    /\ correlation = "start"

\* parse_alert_findings is called on the output of the agent for the alert
ParseAlertFindings ==
    /\ utility_result.op = None
    /\ utility_result' =
          [op |-> "parse_alert_findings",
           output |-> utility_result.output,
           alert |-> utility_result.alert,
           parsed |-> parse_alert_findings(utility_result.output,
                                           utility_result.alert, round_number)]
    /\ UNCHANGED <<session, blackboard, router, current_findings,
                   previous_findings, round_number, round_config, correlation>>

NextParse == ParseAlertFindings

SpecParse == InitParse /\ [][NextParse]_vars

\* ---------------------------------------------------------------------
\* MultiAgentCorrelationWorkflow (workflows/multi_agent_correlation.py).
\* round_number counts the rounds the run has started; current_findings
\* are the findings the latest round has come to, which the run does not
\* read.
\* ---------------------------------------------------------------------
CorrelationConfigs ==
    {MultiRoundConfig(enable_multi_round, max_rounds, 80, 90) :
        enable_multi_round \in BOOLEAN, max_rounds \in 1..MaxRounds}

InitCorrelation ==
    /\ InitSession
    /\ InitBlackboard
    /\ NoBuilding
    /\ NoRouter
    /\ current_findings = <<>>
    /\ previous_findings = <<>>
    /\ round_number = 0
    /\ round_config \in CorrelationConfigs
    /\ utility_result = NoOutcome
    /\ correlation = "start"

\* run() with enable_multi_round unset: _run_single_round_investigation
\* starts its only round
_run_single_round_investigation ==
    /\ correlation = "start"
    /\ ~round_config.enable_multi_round
    /\ round_number' = round_number + 1
    /\ correlation' = "round"
    /\ UNCHANGED <<session, blackboard, router, current_findings,
                   previous_findings, round_config, utility_result>>

\* run() with enable_multi_round set: _run_multi_round_investigation
\* starts round 1
_run_multi_round_investigation ==
    /\ correlation = "start"
    /\ round_config.enable_multi_round
    /\ round_number' = round_number + 1
    /\ correlation' = "round"
    /\ UNCHANGED <<session, blackboard, router, current_findings,
                   previous_findings, round_config, utility_result>>

\* Runner.run returns: the round is finished, with whatever findings
RoundReturns ==
    /\ correlation = "round"
    /\ current_findings' \in ListsOf(ExitFindings, MaxAlerts)
    /\ correlation' = "returned"
    /\ UNCHANGED <<session, blackboard, router, previous_findings,
                   round_number, round_config, utility_result>>

\* the investigation returns the final output of its round as the report
ReturnReport ==
    /\ correlation = "returned"
    /\ correlation' = "done"
    /\ UNCHANGED <<session, blackboard, router, current_findings,
                   previous_findings, round_number, round_config,
                   utility_result>>

NextCorrelation ==
    \/ _run_single_round_investigation
    \/ _run_multi_round_investigation
    \/ RoundReturns
    \/ ReturnReport

SpecCorrelation == InitCorrelation /\ [][NextCorrelation]_vars

\* ---------------------------------------------------------------------
\* Properties
\* ---------------------------------------------------------------------
PendingFields ==
    {"pending_question", "pending_tool_call", "pending_handoff",
     "pending_agent_selection"}

Terminal == _state.status \in {"COMPLETED", "ENDED"}

LastMessage == _state.messages[Len(_state.messages)]

\* C1: at most one of the four pending_* fields of WorkflowState is
\* non-null in every reachable state.
C1_AtMostOnePending ==
    Cardinality({f \in PendingFields : _state[f] # Null}) <= 1

\* C2: once end_workflow has been signalled, a select_specialist call that
\* waits for the user's selection is released (so that the session can go
\* on to ENDED without a provide_agent_selection signal).
C2_StopReleasesSelectionWait ==
    \A c \in BagToSet(tool) :
        (c.pc = "sel_wait" /\ _should_end) => SelectReleased

\* C3: a session that received end_workflow before run() returned finishes
\* with status ENDED, never COMPLETED.
C3_StopMeansEnded ==
    (pc = "done" /\ _should_end) => _state.status = "ENDED"

\* C4 as stated: a turn that raises appends exactly one assistant error
\* message, leaves status RUNNING and run() goes on to the next input.
C4_FailedTurnKeepsRunning ==
    [][TurnRaises =>
          /\ _state'.messages =
                Append(_state.messages, ChatMessage("assistant", ErrorMessage))
          /\ _state'.status = "RUNNING"
          /\ pc' \in {"wait_input", "in_turn"}]_vars

\* C4 amended: a turn that raises appends exactly one assistant error
\* message; run() stays RUNNING and goes on to the next input unless a stop
\* was signalled or the turn was the max_turns-th, and then it takes the
\* loop's normal exit (ENDED after a stop, COMPLETED otherwise).
C4_FailedTurnGoesRoundLoop ==
    [][TurnRaises =>
          /\ _state'.messages =
                Append(_state.messages, ChatMessage("assistant", ErrorMessage))
          /\ IF ~_should_end /\ turn_count < _config.max_turns
             THEN /\ _state'.status = "RUNNING"
                  /\ pc' \in {"wait_input", "in_turn"}
             ELSE /\ pc' = "done"
                  /\ _state'.status =
                        IF _should_end THEN "ENDED" ELSE "COMPLETED"]_vars

C4_Witness ==
    /\ pc = "wait_input"
    /\ _state.status = "RUNNING"
    /\ turn_count >= 1
    /\ LastMessage = ChatMessage("assistant", ErrorMessage)

\* C5: run() never starts more than config.max_turns turns, and when the
\* max_turns-th turn finishes with no stop signalled, run() returns with
\* status COMPLETED without waiting for input.
C5_TurnBudget ==
    /\ [](turn_count <= _config.max_turns)
    /\ [][(/\ TurnReturns \/ TurnRaises
           /\ turn_count = _config.max_turns
           /\ ~_should_end)
          => (pc' = "done" /\ _state'.status = "COMPLETED")]_vars

C5_Witness ==
    /\ pc = "done"
    /\ turn_count = _config.max_turns
    /\ result = "Investigation completed (max turns reached)."
    /\ LastMessage = ChatMessage("assistant", ErrorMessage)

\* the user messages a session has been given: the initial message and the
\* send_message signals
MessagesGiven ==
    delivered + (IF pc \notin {"start", "load_mcp"}
                    /\ initial_message \notin {None, ""} THEN 1 ELSE 0)

\* C6: every delivered message gets a turn of its own: when run() waits
\* for input with nothing pending and no stop, as many turns have been
\* started as messages were given.
C6_OneTurnPerMessage ==
    (pc = "wait_input" /\ ~_has_pending_input /\ ~_should_end)
        => turn_count >= MessagesGiven

\* C7: ask_user sets pending_question; it returns only after a stop or a
\* send_message delivered after the call, clears pending_question, and
\* (without a stop) returns the text of a message delivered after the call.
C7_AskUserWaitsForLaterMessage ==
    /\ [][(CallTools /\ \E c \in BagToSet(tool') : c.pc = "ask_wait")
            => _state'.pending_question # Null]_vars
    /\ [][\A c \in BagToSet(tool) :
            AskUserResume(c) =>
               /\ _should_end \/ delivered > c.callMsg
               /\ _state'.pending_question = Null
               /\ returned'.kind = "ask_user"
               /\ IF _should_end
                  THEN returned'.ret = UserEndedNotice
                  ELSE /\ returned'.ret = _pending_user_response
                       /\ responseSeq > c.callMsg]_vars

C7_Witness ==
    /\ returned = ReturnedTool("ask_user", "prod")
    /\ _pending_user_response = "prod"
    /\ delivered = 2
    /\ pc = "in_turn"
    /\ ~_should_end

\* C8: when the user answers a selection request with "", select_specialist
\* clears pending_agent_selection, runs no specialist and returns the
\* cancellation notice; the session stays RUNNING.
C8_EmptySelectionCancels ==
    [][\A c \in BagToSet(tool) :
         (SelectResume(c) /\ lastSelection = "") =>
            /\ _state'.pending_agent_selection = Null
            /\ tool' = Without(c)
            /\ returned' = ReturnedTool("select_specialist", CancelNotice)
            /\ _state'.status = "RUNNING"]_vars

C8_Witness ==
    /\ returned = ReturnedTool("select_specialist", CancelNotice)
    /\ lastSelection = ""
    /\ _state.pending_agent_selection = Null
    /\ _state.status = "RUNNING"

\* C9: a specialist run is started only on a selection signal that names
\* it and was delivered after the request was raised, never while
\* pending_agent_selection is still set, and no selection signal starts
\* more than one specialist run.
C9_OneRunPerSelection ==
    \A c \in BagToSet(tool) :
        c.pc = "spec_run" =>
            /\ c.auth > c.callSel
            /\ c.selected \in SpecialistNames
            /\ _state.pending_agent_selection = Null
            /\ CopiesIn(c, tool) = 1
            /\ \A d \in BagToSet(tool) \ {c} : d.auth # c.auth

\* C10: in a terminal status all four pending_* fields are null.
C10_TerminalHasNoPending ==
    Terminal => \A f \in PendingFields : _state[f] = Null

C10_Witness ==
    /\ _state.status = "ENDED"
    /\ returned = ReturnedTool("ask_user", UserEndedNotice)

\* the changes of status a session is allowed
StatusMoves ==
    {<<"PENDING", "RUNNING">>, <<"RUNNING", "COMPLETED">>,
     <<"RUNNING", "ENDED">>}

\* C11: the status only moves PENDING -> RUNNING -> COMPLETED or
\* PENDING -> RUNNING -> ENDED: no step takes it back to an earlier status,
\* from COMPLETED to ENDED or back, and no signal changes it (in
\* particular not when it is terminal).
C11_StatusOnlyMovesForward ==
    /\ [][_state'.status # _state.status =>
             <<_state.status, _state'.status>> \in StatusMoves]_vars
    /\ [][_state'.status # _state.status => ~Signal]_vars

C11_Witness ==
    /\ _state.status = "ENDED"
    /\ turn_count >= 1
    /\ delivered >= 1
    /\ selDelivered >= 1

\* C13: a wait is released only by its own kind of event or by a stop.  The
\* wait of an outstanding ask_user call comes true only in a send_message
\* or end_workflow step, never in a provide_confirmation or
\* provide_agent_selection step; the wait of an outstanding
\* select_specialist call comes true only in a provide_agent_selection or
\* end_workflow step, never in a send_message or provide_confirmation step.
C13_WaitsReleasedByOwnEvent ==
    [][\A c \in BagToSet(tool) :
         /\ (c.pc = "ask_wait" /\ ~AskUserReleased /\ AskUserReleased') =>
                /\ send_message \/ end_workflow
                /\ ~(provide_confirmation \/ provide_agent_selection)
         /\ (c.pc = "sel_wait" /\ ~SelectReleased /\ SelectReleased') =>
                /\ provide_agent_selection \/ end_workflow
                /\ ~(send_message \/ provide_confirmation)]_vars

\* an ask_user call still waits after the user has answered a selection
\* request and a confirmation request
C13_Witness ==
    /\ \E c \in BagToSet(tool) :
          c.pc = "ask_wait" /\ selDelivered > c.callSel /\ ~AskUserReleased
    /\ _confirmation_response # Null

\* C12: delivering the same send_message signal twice leaves the message
\* history as delivering it once does, and causes no more agent turns: a
\* second delivery appends nothing, and no more turns are started than
\* messages were given.
C12_DuplicateIsAbsorbed ==
    /\ [][send_message_again => _state'.messages = _state.messages]_vars
    /\ [](turn_count <= MessagesGiven)

\* a is the start of b
IsPrefix(a, b) == Len(a) <= Len(b) /\ SubSeq(b, 1, Len(a)) = a

\* C14 as stated: what format_summary() returned at any earlier point,
\* an empty blackboard included, is a prefix, line by line, of what it
\* returns now.
C14_SummaryOnlyGrows ==
    summary # <<>> => IsPrefix(summary, format_summary(findings))

\* C14 amended: what format_summary() returned at any earlier point at
\* which the blackboard held at least one finding is a prefix, line by
\* line, of what it returns now; the one line returned for an empty
\* blackboard is replaced once a finding is recorded.
C14_SummaryOnlyGrowsOnceNonEmpty ==
    summary \notin {<<>>, <<NoFindingsLine>>}
        => IsPrefix(summary, format_summary(findings))

C14_Witness ==
    /\ Len(summary) = 2
    /\ Len(findings) = MaxFindings
    /\ Len(groups) >= 1
    /\ Len(format_summary(findings)) = MaxFindings + 1

\* C15: add_finding with a confidence below 0.0 or above 1.0 fails with an
\* error and leaves the findings and the groups as they were (nothing is
\* recorded, with the value clamped or otherwise); every finding on the
\* blackboard has a confidence within 0.0 .. 1.0.
C15_OutOfRangeConfidenceRejected ==
    /\ [][\A agent_name \in AgentNames, key \in Keys, value \in Values,
             confidence \in Confidences :
             (/\ update_shared_context(agent_name, key, value, confidence)
              /\ (confidence < 0 \/ confidence > 100))
             => /\ findings' = findings
                /\ groups' = groups
                /\ reply'.raised
                /\ reply'.out = <<ToolErrorNotice>>]_vars
    /\ [](\A i \in 1..Len(findings) :
            findings[i].confidence >= 0 /\ findings[i].confidence <= 100)

C15_Witness ==
    /\ reply.op = "update_shared_context"
    /\ reply.raised
    /\ Len(findings) >= 1
    /\ Len(groups) >= 1

\* the 0-based index is the position of a finding on the blackboard
IndexExists(index) == index >= 0 /\ index < Len(findings)

\* C16: add_group rejects a finding_indices list with an index that is not
\* the position of an existing finding and leaves the groups unchanged; in
\* every reachable state the indices of every group refer to findings on
\* the blackboard.
C16_GroupIndicesExist ==
    /\ [][\A finding_indices \in IndexLists :
             (/\ CallAddGroup(finding_indices)
              /\ \E k \in 1..Len(finding_indices) :
                     ~IndexExists(finding_indices[k]))
             => groups' = groups /\ reply'.raised]_vars
    /\ [](\A g \in 1..Len(groups) :
            \A k \in 1..Len(groups[g].finding_indices) :
                IndexExists(groups[g].finding_indices[k]))

\* the positions of the findings with a confidence of at least threshold
HighConfidence(threshold) ==
    {i \in 1..Len(findings) : findings[i].confidence >= threshold}

\* where the finding at position i comes in the order by confidence
\* descending, recording order among equals
Rank(i, threshold) ==
    1 + Cardinality({j \in HighConfidence(threshold) :
            \/ findings[j].confidence > findings[i].confidence
            \/ /\ findings[j].confidence = findings[i].confidence
               /\ j < i})

\* C17: get_high_confidence_root_causes(threshold) returns exactly the
\* findings with confidence >= threshold, by confidence descending, equal
\* confidences in recording order.
C17_RootCausesByConfidence ==
    reply.op = "get_high_confidence_root_causes" =>
        /\ Len(reply.out) = Cardinality(HighConfidence(reply.threshold))
        /\ \A i \in HighConfidence(reply.threshold) :
              reply.out[Rank(i, reply.threshold)] = findings[i]

\* findings recorded with 0.9, 0.6, 0.95 give [0.95, 0.9] for threshold 0.8
C17_Witness ==
    /\ reply.op = "get_high_confidence_root_causes"
    /\ reply.threshold = 80
    /\ [i \in 1..Len(findings) |-> findings[i].confidence] = <<90, 60, 95>>
    /\ [k \in 1..Len(reply.out) |-> reply.out[k].confidence] = <<95, 90>>

\* get_shared_context(filter_key) asks for the findings of this key
FilterSelects(filter_key, key) ==
    filter_key \in {None, ""} \/ KeyContains(filter_key, key)

\* line is one of lines
HasLine(lines, line) == \E k \in 1..Len(lines) : lines[k] = line

Specialists ==
    {KeywordMappingNames[k] : k \in 1..Len(KeywordMappingNames)}
        \cup {"NetworkSpecialist"}

KeywordsOf(specialist) ==
    IF specialist \in DOMAIN KEYWORD_MAPPINGS
    THEN KEYWORD_MAPPINGS[specialist] ELSE {}

\* the specialist is in the available set (names compared without case)
IsAvailable(specialist) ==
    \E a \in available_specialists : LowerName(a) = LowerName(specialist)

\* keyword occurs in text as a substring, letter case put aside
OccursIgnoringCase(keyword, text) ==
    \E i \in 1..(Len(text) - Len(keyword) + 1) :
        \A k \in 1..Len(keyword) :
            LowerChar(text[i + k - 1]) = LowerChar(keyword[k])

\* the names in the suggestion the router's tool has made
Suggested ==
    UNION {{sg[k].name : k \in 1..Len(sg)} : sg \in suggestions}

\* C20: the suggestion contains a specialist if and only if it is in the
\* available set and one of its keywords occurs in the text as a
\* case-insensitive substring or it is the baseline KubernetesSpecialist;
\* a specialist that is not available is never suggested.
C20_SuggestedIffAvailableAndMatched ==
    suggestions # Null =>
        \A specialist \in Specialists :
            specialist \in Suggested <=>
                /\ IsAvailable(specialist)
                /\ \/ specialist = "KubernetesSpecialist"
                   \/ \E keyword \in KeywordsOf(specialist) :
                         OccursIgnoringCase(keyword, context)

\* a text containing 'rbd' yields the Ceph specialist when it is available
C20_Witness ==
    /\ context = <<"P", "r", "b", "d">>
    /\ available_specialists = {"cephspecialist", "GrafanaSpecialist"}
    /\ suggestions =
          Some(<<[name |-> "CephSpecialist", baseline |-> FALSE,
                  matched |-> {<<"r", "b", "d">>}]>>)

\* C21: for a fixed available set and a fixed text, any two calls of the
\* router's tool return the same output: the same specialists in the same
\* order, each with the same reason text (the same matched keywords in the
\* same order).
C21_RoutingIsDeterministic ==
    \A i, j \in 1..Len(outputs) : outputs[i] = outputs[j]

\* the exit policy has been applied to the current round
ExitChecked == utility_result.op = "check_exit_conditions"

RECURSIVE TotalConfidence(_, _)
TotalConfidence(list, places) ==
    IF places = {} THEN 0
    ELSE LET k == CHOOSE x \in places : TRUE IN
         list[k].confidence + TotalConfidence(list, places \ {k})

\* the mean of the confidences at the given places is at least the
\* threshold (no place: the mean is 0)
MeanAtLeast(list, places, threshold) ==
    IF places = {} THEN 0 >= threshold
    ELSE TotalConfidence(list, places) >= threshold * Cardinality(places)

\* C23 as stated: when round_number < max_rounds, the exit policy stops
\* for the confidence reason exactly when the mean of the confidences of
\* all findings of the round, those with confidence 0 included, is at
\* least confidence_threshold.
C23_MeanOfAllConfidences ==
    ExitChecked /\ round_number < round_config.max_rounds =>
        (utility_result.exit.reason = ConfidenceReached <=>
            MeanAtLeast(current_findings, 1..Len(current_findings),
                        round_config.confidence_threshold))

\* C23: when round_number < max_rounds, the exit policy stops for the
\* confidence reason exactly when the mean of the confidences greater
\* than 0 of the round's findings (0 when there is none) is at least
\* confidence_threshold.
C23_MeanOfPositiveConfidences ==
    ExitChecked /\ round_number < round_config.max_rounds =>
        (utility_result.exit.reason = ConfidenceReached <=>
            MeanAtLeast(current_findings,
                        {k \in 1..Len(current_findings) :
                            current_findings[k].confidence > 0},
                        round_config.confidence_threshold))

\* a first round of two findings, one without confidence and one with
\* 0.9, stops for the confidence reason under a threshold of 0.8
C23_Witness ==
    /\ ExitChecked
    /\ round_number = 1
    /\ round_config.max_rounds = 2
    /\ Len(current_findings) = 2
    /\ current_findings[1].confidence = 0
    /\ current_findings[2].confidence = 90
    /\ utility_result.exit.reason = ConfidenceReached

\* C25: calculate_convergence(A, A) is 1.0 for every non-empty list A of
\* AlertFindings, also when an alert of A has no affected layers or two
\* entries of A share an alert_id.
C25_SelfConvergenceIsOne ==
    /\ utility_result.op = "calculate_convergence"
    /\ utility_result.previous = utility_result.current
    /\ utility_result.current # <<>>
    => utility_result.convergence.total = One * utility_result.convergence.count

\* a list of two entries for one alert, the later one without layers,
\* compared with itself
C25_Witness ==
    /\ utility_result.op = "calculate_convergence"
    /\ utility_result.previous = utility_result.current
    /\ Len(utility_result.current) = 2
    /\ utility_result.current[1].alert_id = utility_result.current[2].alert_id
    /\ utility_result.current[1].affected_layers = <<"storage">>
    /\ utility_result.current[2].affected_layers = <<>>
    /\ utility_result.convergence = Quotient(One, 1)

\* C24: a multi-round run goes on with a further round whenever the exit
\* policy applied to the round just finished says continue and stops as
\* soon as it says stop: it ends only after a round on which the policy
\* says stop, having run between 1 and max_rounds rounds.
C24_RunsUntilPolicyStops ==
    correlation = "done" /\ round_config.enable_multi_round =>
        /\ check_exit_conditions(current_findings, previous_findings,
                                 round_number, round_config).should_exit
        /\ round_number \in 1..round_config.max_rounds

\* the finding has a timestamp that one of the formats fits
Parseable(finding) ==
    finding.timestamp # "" /\ strptime(finding.timestamp) # Null

\* the two findings started at most 30 seconds apart
WithinThirtySeconds(f, g) ==
    LET tf == Seconds(strptime(f.timestamp))
        tg == Seconds(strptime(g.timestamp))
    IN tf - tg <= 30 /\ tg - tf <= 30

\* a pattern of type simultaneous lists both alert ids
FlaggedTogether(patterns, f, g) ==
    \E k \in 1..Len(patterns) :
        /\ patterns[k].type = "simultaneous"
        /\ f.alert_id \in ToSet(patterns[k].alert_ids)
        /\ g.alert_id \in ToSet(patterns[k].alert_ids)

\* C26: detect_temporal_patterns flags every pair of alerts with parseable
\* timestamps at most 30 seconds apart: some pattern of type simultaneous
\* lists the alert ids of both.
C26_EveryClosePairIsFlagged ==
    utility_result.op = "detect_temporal_patterns" =>
        \A p, q \in 1..Len(current_findings) :
            /\ p # q
            /\ Parseable(current_findings[p])
            /\ Parseable(current_findings[q])
            /\ WithinThirtySeconds(current_findings[p], current_findings[q])
            => FlaggedTogether(utility_result.patterns,
                               current_findings[p], current_findings[q])

\* the keys a list of findings can be grouped by
SharedKeys ==
    {<<"scope", "ceph">>, <<"resource", "osd.5">>, <<"layer", "storage">>}

\* the finding references the key
References(finding, key) ==
    \/ key[1] = "scope" /\ finding.scope = key[2]
    \/ key[1] = "resource" /\ key[2] \in ToSet(finding.affected_resources)
    \/ key[1] = "layer" /\ key[2] \in ToSet(finding.affected_layers)

\* C27: group_by_shared_infrastructure returns a resource, scope or layer
\* key exactly when at least two distinct alerts reference it; a key that
\* one alert alone references, even more than once, is not returned.
C27_SharedIffTwoAlerts ==
    utility_result.op = "group_by_shared_infrastructure" =>
        \A key \in SharedKeys :
            key \in DOMAIN utility_result.shared_groups <=>
                \E p, q \in 1..Len(current_findings) :
                    /\ p # q
                    /\ References(current_findings[p], key)
                    /\ References(current_findings[q], key)

\* the output holds no JSON object with a usable confidence
Degrading(output) ==
    output \in {PlainText, LongText, BracesNoJson, JsonWordConfidence,
                JsonNullConfidence}

\* C28: parse_alert_findings returns a record for every output and never
\* raises; when the output is not the expected JSON object, or its
\* confidence has an unusable value, the record is the degraded one, with
\* confidence 0.5 and the raw output as root-cause assessment.
C28_AlwaysReturnsARecord ==
    utility_result.op = "parse_alert_findings" =>
        /\ utility_result.parsed.raised = None
        /\ Degrading(utility_result.output) =>
              /\ utility_result.parsed.findings[1].confidence = 50
              /\ utility_result.parsed.findings[1].root_cause_assessment
                    = utility_result.output

\* a step that appends an answer of the running agent to the history
AnswerAppended ==
    /\ Len(_state'.messages) = Len(_state.messages) + 1
    /\ _state'.messages[Len(_state'.messages)].role = "assistant"
    /\ _state'.messages[Len(_state'.messages)].content # ErrorMessage

\* the agents whose final output may become the assistant message
AnsweringAgents == {InvestigationAgent, "Investigator_a1b2c3d4"}

\* C29: a domain specialist never produces the user-facing answer: every
\* assistant message appended to the history is the final output of the
\* InvestigationAgent or of a per-alert investigator reached through
\* investigate_alert, never that of a specialist.
C29_SpecialistNeverAnswers ==
    [][AnswerAppended => active_agent \in AnsweringAgents]_vars

\* a tool of the turn has just returned one of its error strings
FailureReturned ==
    /\ returned' # returned
    /\ returned'.ret \in {FetchError, SpecialistError}

\* C30: a failure of fetch_alerts' activity or of a specialist run inside
\* select_specialist is returned to the agent as an error string, leaves
\* the status RUNNING and leaves last_fetched_alerts and the message
\* history as they were.
C30_FailureIsReturnedAsText ==
    [][FailureReturned =>
          /\ _state'.status = "RUNNING"
          /\ _state'.messages = _state.messages
          /\ last_fetched_alerts' = last_fetched_alerts
          /\ pc' = "in_turn"]_vars

\* fetch_alerts failed after an earlier call had stored alerts, and the
\* alerts are still there
C30_Witness ==
    /\ returned = ReturnedTool("fetch_alerts", FetchError)
    /\ last_fetched_alerts # <<>>
    /\ _state.status = "RUNNING"
    /\ pc = "in_turn"

\* a new turn of the agent starts after an earlier one
NextTurnStarts == turn_count >= 1 /\ turn_count' = turn_count + 1

\* C37: each user message is consumed once: a message that ask_user has
\* returned as its answer does not start a further turn when the current
\* turn has finished.  A turn after the first starts only when a message
\* was delivered after the one ask_user last returned.
C37_AnswerStartsNoTurn ==
    [][NextTurnStarts => responseSeq > answered]_vars

\* an ask_user call is waiting for its answer
AskUserWaits == \E c \in BagToSet(tool) : c.pc = "ask_wait"

\* a waiting ask_user call returns
AskUserReturns ==
    \E c \in BagToSet(tool) : c.pc = "ask_wait" /\ tool' = Without(c)

\* C32: when end_workflow is signalled while ask_user waits, the wait
\* ends, pending_question is cleared and ask_user returns the notice
\* 'User ended the conversation.', not the text of a user message, also
\* when a message had been delivered before.
C32_StopOverridesAskUser ==
    /\ []((AskUserWaits /\ _should_end) => AskUserReleased)
    /\ [][(AskUserReturns /\ _should_end) =>
             /\ returned' = ReturnedTool("ask_user", UserEndedNotice)
             /\ _state'.pending_question = Null]_vars

\* ask_user has returned the notice although a message of the user was
\* delivered during the turn
C32_Witness ==
    /\ returned = ReturnedTool("ask_user", UserEndedNotice)
    /\ _should_end
    /\ turn_count = 1
    /\ initial_message = "prod"
    /\ delivered >= 1
    /\ _pending_user_response = "prod"
    /\ _state.pending_question = Null
    /\ pc = "in_turn"

\* run() leaves the await before the loop or the wait for input
LeavesIdle == pc \in {"load_mcp", "wait_input"} /\ pc' # pc

\* C38: after end_workflow has been delivered run() starts no new turn: a
\* stop that arrives while the loop is idle, or before the first turn of a
\* session started with an initial message, ends the session with no
\* further turn, also when user messages are pending.
C38_NoTurnAfterStop ==
    /\ [][turn_count' # turn_count => ~_should_end]_vars
    /\ [][(LeavesIdle /\ _should_end) =>
             /\ pc' = "done"
             /\ turn_count' = turn_count
             /\ _state'.status = "ENDED"]_vars

\* a session started with an initial message was stopped before its first
\* turn, with a user message pending
C38_Witness ==
    /\ pc = "done"
    /\ _state.status = "ENDED"
    /\ turn_count = 0
    /\ initial_message = "prod"
    /\ delivered >= 1
    /\ _has_pending_input

\* the session becomes COMPLETED
Completes == _state.status # "COMPLETED" /\ _state'.status = "COMPLETED"

\* the turn has returned a response holding a final-report indicator,
\* which is appended as the assistant message and returned by run()
CompletesByFinalReport ==
    /\ pc = "in_turn"
    /\ Len(_state'.messages) = Len(_state.messages) + 1
    /\ LET last == _state'.messages[Len(_state'.messages)] IN
          /\ last.role = "assistant"
          /\ last.content \in FinalOutputs
          /\ \E indicator \in Indicators :
                Occurs(indicator, Lower(last.content))
          /\ result' = last.content

\* max_turns turns have been run and no stop was signalled
CompletesByMaxTurns ==
    /\ ~_should_end
    /\ turn_count' = _config.max_turns
    /\ result' = "Investigation completed (max turns reached)."

\* C40: a session becomes COMPLETED only when the response of the turn
\* that has just returned holds a final-report indicator, or when max_turns
\* turns have been run with no stop; the error message of a failed turn
\* and a question of ask_user never complete it.
C40_CompletedOnlyTwoWays ==
    [][Completes =>
          /\ CompletesByFinalReport \/ CompletesByMaxTurns
          /\ TurnRaises => CompletesByMaxTurns
          /\ ~CallTools]_vars

\* the last turn of the budget failed: the session is COMPLETED by the
\* budget, with the error message as its last message
C40_Witness ==
    /\ _state.status = "COMPLETED"
    /\ pc = "done"
    /\ turn_count = _config.max_turns
    /\ turn_count >= 1
    /\ ~_should_end
    /\ _state.messages[Len(_state.messages)] =
          ChatMessage("assistant", ErrorMessage)

\* the findings with a start time, in the order of their start times
TimeOrdered == sort_by_dt(timestamped(current_findings))

\* the alerts i..j are a chain: each starts at most 300 seconds after the
\* one before it, and the alerts next to the chain do not
Chain(i, j) ==
    /\ \A k \in i..(j - 1) :
          TimeOrdered[k + 1].dt - TimeOrdered[k].dt <= 300
    /\ i > 1 => TimeOrdered[i].dt - TimeOrdered[i - 1].dt > 300
    /\ j < Len(TimeOrdered) =>
          TimeOrdered[j + 1].dt - TimeOrdered[j].dt > 300

\* C36: for every chain of at least 3 time-ordered alerts whose
\* consecutive start times are at most 300 seconds apart (0 seconds
\* included) detect_temporal_patterns returns a cascade pattern of these
\* alerts whose duration_seconds is the last start time minus the first.
C36_EveryChainIsACascade ==
    utility_result.op = "detect_temporal_patterns" =>
        \A i, j \in 1..Len(TimeOrdered) :
            (j >= i + 2 /\ Chain(i, j)) =>
                \E k \in 1..Len(utility_result.patterns) :
                    LET pattern == utility_result.patterns[k] IN
                    /\ pattern.type = "cascade"
                    /\ pattern.alert_ids =
                          AlertIdsOf(SubSeq(TimeOrdered, i, j))
                    /\ pattern.duration_seconds =
                          TimeOrdered[j].dt - TimeOrdered[i].dt

\* the agents of a session whose tools include update_shared_context: the
\* three domain specialists and the investigator of a fetched alert
UpdateToolHolders ==
    {"ComputeSpecialist", "StorageSpecialist", "NetworkSpecialist",
     "Investigator_a1b2c3d4"}

\* C39: every finding on the blackboard carries as agent_name the name of
\* the agent that invoked update_shared_context.  Only an agent that holds
\* the tool can invoke it, so the name is that of one of the holders, never
\* that of the orchestrator.
C39_FindingNamesItsInvoker ==
    \A k \in 1..Len(findings) : findings[k].agent_name \in UpdateToolHolders

\* ---------------------------------------------------------------------
\* workflows/agent_factory.py, workflows/investigation_manager.py: the
\* swarm of the leaders and one specialist for each enabled MCP server
\* ---------------------------------------------------------------------
MaxServers == 3

\* names of MCP servers, as MCP_SERVERS spells them
ServerNames == {"kubernetes", "ceph", "CEPH"}

\* str.title() of a server name
title(name) ==
    CASE name = "kubernetes" -> "Kubernetes"
      [] name = "ceph" -> "Ceph"
      [] name = "CEPH" -> "Ceph"

\* f"{server_config.name.title()}Specialist"
specialist_name(server_name) == title(server_name) \o "Specialist"

\* specialists[name] = agent on a dict kept as the list of its keys: a key
\* that exists keeps its place
SetItem(keys, key) ==
    IF \E k \in 1..Len(keys) : keys[k] = key THEN keys ELSE Append(keys, key)

\* the loop over enabled_servers of initialize_agent_swarm; the servers at
\* the places in failing are those whose Agent(...) raises and is skipped
RECURSIVE CreateSpecialists(_, _, _, _)
CreateSpecialists(specialists, servers, k, failing) ==
    IF k > Len(servers) THEN specialists
    ELSE CreateSpecialists(IF k \in failing THEN specialists
                           ELSE SetItem(specialists, specialist_name(servers[k])),
                           servers, k + 1, failing)

\* the handoffs every builder sets: specialists to the SingleAlertLeader,
\* the SingleAlertLeader to the MultiAlertLeader and the specialists, the
\* MultiAlertLeader to the SingleAlertLeader
Handoffs_SpecialistsToMulti(specialists) ==
    [agent \in {"MultiAlertLeader", "SingleAlertLeader"} \cup ToSet(specialists) |->
        IF agent = "SingleAlertLeader"
        THEN <<"MultiAlertLeader">> \o specialists
        ELSE IF agent = "MultiAlertLeader" THEN <<"SingleAlertLeader">>
        ELSE <<"MultiAlertLeader">>]

Handoffs(specialists) ==
    [agent \in {"MultiAlertLeader", "SingleAlertLeader"} \cup ToSet(specialists) |->
        IF agent = "SingleAlertLeader"
        THEN <<"MultiAlertLeader">> \o specialists
        ELSE IF agent = "MultiAlertLeader" THEN <<"SingleAlertLeader">>
        ELSE <<"SingleAlertLeader">>]

\* the dictionary of agents a builder returns, each with its handoffs
Swarm(op, specialists) ==
    [op |-> op, raised |-> FALSE, handoffs |-> Handoffs(specialists)]

\* initialize_agent_swarm(model, mcp_config, specialist_descriptions)
initialize_agent_swarm(failing) ==
    /\ swarm = NoOutcome
    /\ swarm' = Swarm("initialize_agent_swarm",
                      IF enabled_servers = <<>> THEN <<>>
                      ELSE CreateSpecialists(<<>>, enabled_servers, 1, failing))
    /\ UNCHANGED <<workflow, blackboard, router, investigation,
                   incident_alerts, created_agents, enabled_servers>>

\* the parameters of new_specialist_agent, and the keywords
\* InvestigationManager._initialize_agents calls it with
SpecialistParameters == {"domain", "model", "available_mcp_servers", "tools"}
SpecialistKeywords == {"name", "domain_description", "model", "mcp_server_name"}

\* InvestigationManager._initialize_agents(mcp_config): the first enabled
\* server has new_specialist_agent called with keywords it does not take
_initialize_agents ==
    /\ swarm = NoOutcome
    /\ swarm' = IF enabled_servers # <<>>
                   /\ ~(SpecialistKeywords \subseteq SpecialistParameters)
                THEN [op |-> "_initialize_agents", raised |-> TRUE,
                      error |-> "TypeError"]
                ELSE Swarm("_initialize_agents",
                           CreateSpecialists(<<>>, enabled_servers, 1, {}))
    /\ UNCHANGED <<workflow, blackboard, router, investigation,
                   incident_alerts, created_agents, enabled_servers>>

InitializeAgentSwarm ==
    \E failing \in SUBSET (1..Len(enabled_servers)) : initialize_agent_swarm(failing)

InitSwarm ==
    /\ InitSession
    /\ InitBlackboard
    /\ NoRouter
    /\ NoInvestigation
    /\ incident_alerts = <<>>
    /\ created_agents = NoOutcome
    /\ enabled_servers \in ListsOf(ServerNames, MaxServers)
    /\ swarm = NoOutcome

NextSwarm == InitializeAgentSwarm \/ _initialize_agents

SpecSwarm == InitSwarm /\ [][NextSwarm]_vars

\* a builder has returned its swarm
SwarmBuilt == swarm # NoOutcome /\ ~swarm.raised

\* the agents of the built swarm, and its transfer edges
SwarmAgents == DOMAIN swarm.handoffs

Edges ==
    UNION {{<<agent, swarm.handoffs[agent][k]>> : k \in 1..Len(swarm.handoffs[agent])} :
           agent \in SwarmAgents}

SwarmSpecialists == SwarmAgents \ {"MultiAlertLeader", "SingleAlertLeader"}

\* the agents reached from the set from in at most n transfers
RECURSIVE Reached(_, _)
Reached(from, n) ==
    IF n = 0 THEN from
    ELSE Reached(from \cup {edge[2] : edge \in {e \in Edges : e[1] \in from}}, n - 1)

\* C33: the transfer edges of a built swarm are exactly specialist ->
\* SingleAlertLeader, SingleAlertLeader -> MultiAlertLeader,
\* SingleAlertLeader -> specialist and MultiAlertLeader ->
\* SingleAlertLeader; no specialist transfers to the MultiAlertLeader
\* directly, and the MultiAlertLeader is reachable from every agent.
C33_SwarmEdges ==
    SwarmBuilt =>
        /\ Edges = {<<specialist, "SingleAlertLeader">> : specialist \in SwarmSpecialists}
                   \cup {<<"SingleAlertLeader", "MultiAlertLeader">>}
                   \cup {<<"SingleAlertLeader", specialist>> : specialist \in SwarmSpecialists}
                   \cup {<<"MultiAlertLeader", "SingleAlertLeader">>}
        /\ \A specialist \in SwarmSpecialists : <<specialist, "MultiAlertLeader">> \notin Edges
        /\ \A agent \in SwarmAgents :
              "MultiAlertLeader" \in Reached({agent}, Cardinality(SwarmAgents))

\* a swarm with two specialists, one of which was created for the second
\* server of its name
C33_Witness ==
    /\ SwarmBuilt
    /\ swarm.op = "initialize_agent_swarm"
    /\ SwarmSpecialists = {"KubernetesSpecialist", "CephSpecialist"}
    /\ Len(enabled_servers) = 3

\* C34: in the built swarm the SingleAlertLeader has a transfer edge to
\* the RouterAgent and the RouterAgent one back to the SingleAlertLeader.
C34_RouterEdges ==
    SwarmBuilt =>
        /\ <<"SingleAlertLeader", "RouterAgent">> \in Edges
        /\ "RouterAgent" \in SwarmAgents
        /\ <<"RouterAgent", "SingleAlertLeader">> \in Edges

\* ---------------------------------------------------------------------
\* workflows/incident_correlation_workflow.py: the agents of one run
\* ---------------------------------------------------------------------
MaxIncidentAlerts == 3

\* fingerprints of alerts; "" is an alert without one
Fingerprints == {"", "abcdef1201", "abcdef1202", "0123456789"}

IncidentAlerts == [fingerprint : Fingerprints]

\* fingerprint[:8]
First8(fingerprint) ==
    CASE fingerprint = "abcdef1201" -> "abcdef12"
      [] fingerprint = "abcdef1202" -> "abcdef12"
      [] fingerprint = "0123456789" -> "01234567"
      [] fingerprint = "" -> ""

_get_alert_identifier(alert, index) ==
    IF alert.fingerprint # "" THEN First8(alert.fingerprint)
    ELSE ToString(index + 1)

\* investigators[agent_name] = investigator on a dict kept as the list of
\* its items: an agent_name that exists has its agent replaced
PutInvestigator(investigators, agent_name, index) ==
    IF \E k \in 1..Len(investigators) : investigators[k].agent_name = agent_name
    THEN [k \in 1..Len(investigators) |->
             IF investigators[k].agent_name = agent_name
             THEN [agent_name |-> agent_name, alert |-> index]
             ELSE investigators[k]]
    ELSE Append(investigators, [agent_name |-> agent_name, alert |-> index])

\* for i, alert in enumerate(self.alerts): one investigator, named after
\* the identifier of the alert and given the alert as its context
RECURSIVE CreateInvestigators(_, _, _)
CreateInvestigators(investigators, alert_list, i) ==
    IF i >= Len(alert_list) THEN investigators
    ELSE CreateInvestigators(
             PutInvestigator(investigators,
                             "Investigator_" \o _get_alert_identifier(alert_list[i + 1], i),
                             i),
             alert_list, i + 1)

\* the number of tools create_shared_context_tools returns, and the number
\* of names _create_agents unpacks them into
ToolsReturned == 3
ToolsUnpacked == 4

\* _create_agents(): the specialists come first, and the first of them
\* already unpacks the tools
_create_agents(alert_list) ==
    IF ToolsUnpacked # ToolsReturned
    THEN [op |-> "_create_agents", raised |-> TRUE, error |-> "ValueError",
          investigators |-> <<>>]
    ELSE [op |-> "_create_agents", raised |-> FALSE,
          investigators |-> CreateInvestigators(<<>>, alert_list, 0)]

\* IncidentCorrelationWorkflow.run(alerts) up to the agents it creates
IncidentCorrelationRun ==
    /\ created_agents = NoOutcome
    /\ created_agents' = _create_agents(incident_alerts)
    /\ UNCHANGED <<workflow, blackboard, router, investigation,
                   incident_alerts, enabled_servers, swarm>>

InitIncident ==
    /\ InitSession
    /\ InitBlackboard
    /\ NoRouter
    /\ NoInvestigation
    /\ incident_alerts \in ListsOf(IncidentAlerts, MaxIncidentAlerts)
    /\ created_agents = NoOutcome
    /\ enabled_servers = <<>>
    /\ swarm = NoOutcome

NextIncident == IncidentCorrelationRun

SpecIncident == InitIncident /\ [][NextIncident]_vars

\* C35: _create_agents creates one investigator for each alert it is
\* given: as many investigators as alerts, of different names, each with
\* an alert of its own.
C35_OneInvestigatorPerAlert ==
    created_agents # NoOutcome =>
        /\ ~created_agents.raised
        /\ Len(created_agents.investigators) = Len(incident_alerts)
        /\ \A k, l \in 1..Len(created_agents.investigators) :
              k # l =>
                 /\ created_agents.investigators[k].agent_name
                      # created_agents.investigators[l].agent_name
                 /\ created_agents.investigators[k].alert
                      # created_agents.investigators[l].alert
====
